---- MODULE Spec2Model ----
(***************************************************************************)
(* Concurrent e-mail dispatch of pkg/messaging (OciManager; AWSManager is  *)
(* the same code over another credential type): the batch slice, the      *)
(* status channel, the dispatcher goroutine started by Send() and one      *)
(* worker goroutine per message.                                           *)
(***************************************************************************)
EXTENDS Integers, Sequences, FiniteSets, TLC

(* ------------------------------ bounds --------------------------------- *)
MaxMsgs == 2          \* longest batch the caller builds
MaxTime == 2          \* last value of the logical clock read by time.Now()
MaxRcpt == 2          \* longest MailTo, CC or BCC list handed to Tolist()
MaxNameLen == 2       \* longest filename or path handed to Attach, Inline, AttachBuffer
MaxCalls == 2         \* number of attach calls made on one message
MaxHeaders == 2       \* number of AddHeader calls made on one message
MaxAtt == 2           \* number of attachments of a message handed to Bytes()
MaxDrain == 2         \* largest batch dispatched with a caller that drains the channel
MaxStall == 4         \* largest batch dispatched with a caller that never receives
MaxCallers == 2       \* goroutines calling Validate() / Authenticate() on one object
MaxAdds == 1          \* messages the caller adds to a prebuilt batch during its dispatch

(* ------------------------- program constants --------------------------- *)
MaxOCIMessages == 10

NotSent == 0
Queued == 1
Sending == 2
Sent == 3
SendError == 4

(* An error value is a tuple of strings; the nil error is the empty tuple. *)
NilErr == <<>>

Slots == 1..MaxMsgs

(* The sequences over S of length up to n. *)
SeqsUpTo(S, n) == UNION { [1..k -> S] : k \in 0..n }

(* No slice returned by Bytes() yet. *)
NoData == [buf |-> 0, len |-> 0, out |-> <<>>, err |-> NilErr]

(* ------------------------- net/mail, as used --------------------------- *)
(* mail.ParseAddress on the address strings the model uses: a bare         *)
(* address, a display-name form, and two strings that do not parse.        *)
ParseAddress(s) ==
    CASE s = "to@example.com"        -> [addr |-> "to@example.com", err |-> NilErr]
      [] s = "cc@example.com"        -> [addr |-> "cc@example.com", err |-> NilErr]
      [] s = "from@example.com"      -> [addr |-> "from@example.com", err |-> NilErr]
      [] s = "bcc@example.com"       -> [addr |-> "bcc@example.com", err |-> NilErr]
      [] s = "Bob <bob@example.com>" -> [addr |-> "bob@example.com", err |-> NilErr]
      [] s = "\"Bob\" <bob@example.com>" -> [addr |-> "bob@example.com", err |-> NilErr]
      [] s = ""                      -> [addr |-> "", err |-> <<"mail: no address">>]
      [] OTHER                       -> [addr |-> "", err |-> <<"mail: missing '@' or angle-addr">>]

(* isUTF8: a string is a sequence of code points; 65533 is U+FFFD. *)
isUTF8(s) == \A k \in 1..Len(s) : s[k] # 65533

(* Tolist that validates CC before MailTo. *)
TolistCcFirst(m) ==
    LET allRecipients == m.CC \o m.MailTo \o m.BCC
        bad == {k \in 1..Len(allRecipients) : ParseAddress(allRecipients[k]).err # NilErr}
    IN  IF bad # {}
        THEN LET k == CHOOSE x \in bad : \A y \in bad : x <= y
             IN  [list |-> <<>>,
                  err  |-> <<"invalid address", allRecipients[k]>> \o ParseAddress(allRecipients[k]).err]
        ELSE [list |-> [k \in 1..Len(allRecipients) |-> ParseAddress(allRecipients[k]).addr],
              err  |-> NilErr]

(* Message.Tolist: MailTo ++ CC ++ BCC, each parsed, first failure wins. *)
Tolist(m) ==
    LET allRecipients == m.MailTo \o m.CC \o m.BCC
        bad == {k \in 1..Len(allRecipients) : ParseAddress(allRecipients[k]).err # NilErr}
    IN  IF bad # {}
        THEN LET k == CHOOSE x \in bad : \A y \in bad : x <= y
             IN  [list |-> <<>>,
                  err  |-> <<"invalid address", allRecipients[k]>> \o ParseAddress(allRecipients[k]).err]
        ELSE [list |-> [k \in 1..Len(allRecipients) |-> ParseAddress(allRecipients[k]).addr],
              err  |-> NilErr]

(* The two validations of Message.Bytes; the error it returns, if any. *)
BytesErr(m) ==
    IF ParseAddress(m.From.Address).err # NilErr
    THEN <<"invalid 'From' address">> \o ParseAddress(m.From.Address).err
    ELSE IF ~isUTF8(m.Subject)
         THEN <<"subject contains non-UTF-8 characters">>
         ELSE NilErr

(* ------------------------------ messages ------------------------------- *)
(* NewMessage at time t: Status NotSent, both dates the creation time. *)
NewMessage(id, from, subject, mailTo, cc, bcc, t) ==
    [ID |-> id, Subject |-> subject, Error |-> NilErr, Status |-> NotSent,
     From |-> from, MailTo |-> mailTo, CC |-> cc, BCC |-> bcc,
     DateReceived |-> t, DateStatus |-> t]

GoodFrom == [Name |-> "Sender", Address |-> "from@example.com"]
BadFrom == [Name |-> "Sender", Address |-> ""]

(* The messages a caller hands to AddMessage/AddMessages, created at t. *)
MsgPool(t) ==
    { NewMessage("ok", GoodFrom, <<72, 105>>, <<"to@example.com">>,
                 <<"Bob <bob@example.com>">>, <<>>, t),
      NewMessage("badcc", GoodFrom, <<72, 105>>, <<"to@example.com">>,
                 <<"not-an-email">>, <<"cc@example.com">>, t),
      NewMessage("badfrom", BadFrom, <<72, 105>>, <<"to@example.com">>, <<>>, <<>>, t) }

(* The same with well-formed messages only. *)
OkPool(t) ==
    { NewMessage("ok", GoodFrom, <<72, 105>>, <<"to@example.com">>,
                 <<"Bob <bob@example.com>">>, <<>>, t) }

ZeroMessage ==
    [ID |-> "", Subject |-> <<>>, Error |-> NilErr, Status |-> NotSent,
     From |-> [Name |-> "", Address |-> ""], MailTo |-> <<>>, CC |-> <<>>, BCC |-> <<>>,
     DateReceived |-> 0, DateStatus |-> 0]

(* What smtp.SendMail may return. *)
TransportErrs == { NilErr, <<"smtp: 550 rejected">> }

VARIABLES
    Messages,    \* o.Messages, the batch slice
    Client,      \* o.Client, written by setup()
    now,         \* logical clock read by time.Now()
    sendRet,     \* what Send() returned to the caller
    statusRet,   \* what the last SendStatus() returned
    cancelRet,   \* what the last CancelSend() returned
    panicMsg,    \* the panic that killed the process, "" while it runs
    made,        \* make(chan Message, MaxOCIMessages) has run
    ch,          \* buffered contents of the status channel
    closed,      \* number of close(ch) executed
    dpc,         \* dispatcher goroutine: program counter
    tm,          \* dispatcher: batch length captured at its start
    di,          \* dispatcher: loop index i (0-based as in the source)
    dm,          \* dispatcher: local copy m
    wg,          \* WaitGroup counter
    wpc,         \* worker i: program counter
    wm,          \* worker i: its private copy m
    wat,         \* worker i: time of its last status assignment
    smtpCalls,   \* worker i: the smtp.SendMail calls made, in order
    received,    \* per batch slot, the snapshots the caller has received, in order
    msg,         \* the Message a caller builds with the builder methods
    ret,         \* the last builder call on msg: its arguments and what it returned
    calls,       \* the attach calls made on msg so far, oldest first
    mu,          \* AWSAuth.mu / AzureAuth.mu: the goroutine holding it, 0 when free
    Authenticated, \* AWSAuth.Authenticated / AzureAuth.Authenticated
    apc,         \* per goroutine, its position in Validate() / Authenticate()
    mt,          \* o.MessagesMT: the goroutine holding it, "" when free
    cpc,         \* the caller goroutine: its position in a manager call made step by step
    carg,        \* the messages handed to the AddMessage / AddMessages call in progress
    bufferPool,  \* the buffers lying in the process-wide bufferPool
    buffers,     \* per buffer ever made by bufferPool.New, the lines in its backing array
    wbuf,        \* worker i: the buffer it took from the pool, 0 when it holds none
    wdata        \* worker i: the slice its Bytes() returned and what it held on return

sendVars == <<Messages, Client, now, sendRet, statusRet, cancelRet, panicMsg, made, ch, closed,
              dpc, tm, di, dm, wg, wpc, wm, wat, smtpCalls, received>>
builderVars == <<msg, ret, calls>>
authVars == <<mu, Authenticated, apc>>
lockVars == <<mt, cpc, carg>>
poolVars == <<bufferPool, buffers, wbuf, wdata>>

vars == <<sendVars, builderVars, authVars, lockVars, poolVars>>

mgrVars == <<Messages, Client>>
callerVars == <<sendRet, statusRet, cancelRet, received>>
dispVars == <<dpc, tm, di, dm>>
workerVars == <<wpc, wm, wat, smtpCalls>>
chanVars == <<made, ch, closed>>

(* Results of the caller's calls.  "ready" keeps what setup() reported to   *)
(* the call, "afterClose" whether SendStatus() ran after close(ch).        *)
NoSend == [returned |-> FALSE, ready |-> FALSE, ch |-> "nil", started |-> FALSE, err |-> NilErr]
NoStatus == [returned |-> FALSE, ready |-> FALSE, sent |-> 0, total |-> 0, err |-> NilErr,
             afterClose |-> FALSE]
NoCancel == [returned |-> FALSE, ready |-> FALSE, ok |-> FALSE, err |-> NilErr]

SendIdle ==
    /\ Messages = <<>>
    /\ Client = <<>>
    /\ now = 0
    /\ sendRet = NoSend
    /\ statusRet = NoStatus
    /\ cancelRet = NoCancel
    /\ panicMsg = ""
    /\ made = FALSE
    /\ ch = <<>>
    /\ closed = 0
    /\ dpc = "none"
    /\ tm = 0
    /\ di = 0
    /\ dm = ZeroMessage
    /\ wg = 0
    /\ wpc = [s \in Slots |-> "none"]
    /\ wm = [s \in Slots |-> ZeroMessage]
    /\ wat = [s \in Slots |-> 0]
    /\ smtpCalls = [s \in Slots |-> <<>>]
    /\ received = [s \in Slots |-> <<>>]

(* ------------------------------ manager -------------------------------- *)
(* setup(): builds the PLAIN authenticator and always reports ready. *)
PlainAuth == <<"PlainAuth", "EmailUser", "EmailPassword", "EmailHost">>
setup == [ready |-> TRUE, err |-> NilErr, client |-> PlainAuth]

AddMessage(m) ==
    /\ Len(Messages) < MaxMsgs
    /\ Messages' = Append(Messages, m)
    /\ UNCHANGED <<Client, now, callerVars, panicMsg, chanVars, dispVars, wg, workerVars>>

AddMessages(ms) ==
    /\ Len(Messages) + Len(ms) <= MaxMsgs
    /\ Messages' = Messages \o ms
    /\ UNCHANGED <<Client, now, callerVars, panicMsg, chanVars, dispVars, wg, workerVars>>

(* Send() that reports started = false although the dispatch runs. *)
SendNotStarted ==
    /\ ~sendRet.returned
    /\ Client' = setup.client
    /\ made' = TRUE
    /\ dpc' = "start"
    /\ sendRet' = [returned |-> TRUE, ready |-> setup.ready, ch |-> "ch",
                   started |-> FALSE, err |-> NilErr]
    /\ UNCHANGED <<Messages, now, statusRet, cancelRet, received, panicMsg, ch, closed,
                   tm, di, dm, wg, workerVars>>

(* Send(): setup, then sendMessage() makes the channel and starts the     *)
(* dispatcher goroutine.  The caller calls it once.                        *)
Send ==
    /\ ~sendRet.returned
    /\ LET r == setup
       IN  /\ Client' = r.client
           /\ IF ~r.ready
              THEN /\ sendRet' = [returned |-> TRUE, ready |-> FALSE, ch |-> "nil",
                                  started |-> FALSE, err |-> r.err]
                   /\ UNCHANGED <<made, dpc>>
              ELSE /\ made' = TRUE
                   /\ dpc' = "start"
                   /\ sendRet' = [returned |-> TRUE, ready |-> TRUE, ch |-> "ch",
                                  started |-> TRUE, err |-> NilErr]
    /\ UNCHANGED <<Messages, now, statusRet, cancelRet, received, panicMsg, ch, closed,
                   tm, di, dm, wg, workerVars>>

(* SendStatus(): setup, then count(Status == Sent) / len under the lock.  *)
(* The float64 quotient is kept as the pair (sent, total).                 *)
SentCount(msgs) == Cardinality({k \in 1..Len(msgs) : msgs[k].Status = Sent})

SendStatus ==
    /\ LET r == setup
       IN  /\ Client' = r.client
           /\ IF ~r.ready
              THEN statusRet' = [returned |-> TRUE, ready |-> FALSE, sent |-> 0, total |-> 0,
                                 err |-> r.err, afterClose |-> closed > 0]
              ELSE statusRet' = [returned |-> TRUE, ready |-> TRUE,
                                 sent |-> SentCount(Messages), total |-> Len(Messages),
                                 err |-> NilErr, afterClose |-> closed > 0]
    /\ UNCHANGED <<Messages, now, sendRet, cancelRet, received, panicMsg, chanVars,
                   dispVars, wg, workerVars>>

(* CancelSend(): setup, then panic("implement me"). *)
CancelSend ==
    /\ LET r == setup
       IN  /\ Client' = r.client
           /\ IF ~r.ready
              THEN /\ cancelRet' = [returned |-> TRUE, ready |-> FALSE, ok |-> FALSE, err |-> r.err]
                   /\ UNCHANGED panicMsg
              ELSE /\ panicMsg' = "implement me"
                   /\ UNCHANGED cancelRet
    /\ UNCHANGED <<Messages, now, sendRet, statusRet, received, chanVars,
                   dispVars, wg, workerVars>>

(* ------------------------------ channel -------------------------------- *)
Snapshot(s, m, t) == [slot |-> s, at |-> t, msg |-> m]

(* A channel without a capacity. *)
CanSendUnbounded == TRUE

(* ch <- v: blocks while the buffer is full, panics on a closed channel. *)
CanSend == closed > 0 \/ Len(ch) < MaxOCIMessages

ChanSend(v) ==
    IF closed > 0
    THEN /\ panicMsg' = "send on closed channel"
         /\ UNCHANGED chanVars
    ELSE /\ ch' = Append(ch, v)
         /\ UNCHANGED <<made, closed, panicMsg>>

(* The caller receives the next snapshot. *)
Receive ==
    /\ ch # <<>>
    /\ received' = [received EXCEPT ![Head(ch).slot] = Append(@, Head(ch))]
    /\ ch' = Tail(ch)
    /\ UNCHANGED <<mgrVars, now, sendRet, statusRet, cancelRet, panicMsg, made, closed,
                   dispVars, wg, workerVars>>

(* ----------------------------- dispatcher ------------------------------ *)
(* tm := len(o.Messages) *)
DispStart ==
    /\ dpc = "start"
    /\ tm' = Len(Messages)
    /\ di' = 0
    /\ dpc' = "loop"
    /\ UNCHANGED <<mgrVars, now, callerVars, panicMsg, chanVars, dm, wg, workerVars>>

(* i < tm; Lock; m := o.Messages[i]; Unlock.  An index past the end of    *)
(* the slice is a run-time panic.                                          *)
DispRead ==
    /\ dpc = "loop"
    /\ di < tm
    /\ IF di + 1 \in 1..Len(Messages)
       THEN /\ dm' = Messages[di + 1]
            /\ dpc' = "publish"
            /\ UNCHANGED panicMsg
       ELSE /\ panicMsg' = "index out of range"
            /\ UNCHANGED <<dm, dpc>>
    /\ UNCHANGED <<mgrVars, now, callerVars, chanVars, tm, di, wg, workerVars>>

(* A dispatcher that sets Queued and goes on without its send. *)
DispPublishSilent ==
    /\ dpc = "publish"
    /\ dm' = [dm EXCEPT !.Status = Queued]
    /\ dpc' = "launch"
    /\ UNCHANGED <<mgrVars, now, callerVars, panicMsg, chanVars, tm, di, wg, workerVars>>

(* m.Status = Queued; ch <- m *)
DispPublish ==
    /\ dpc = "publish"
    /\ CanSend
    /\ dm' = [dm EXCEPT !.Status = Queued]
    /\ ChanSend(Snapshot(di + 1, dm', now))
    /\ dpc' = "launch"
    /\ UNCHANGED <<mgrVars, now, callerVars, tm, di, wg, workerVars>>

(* wg.Add(1); go o.send(ch, m, wg); i++ *)
DispLaunch ==
    /\ dpc = "launch"
    /\ wg' = wg + 1
    /\ wpc' = [wpc EXCEPT ![di + 1] = "start"]
    /\ wm' = [wm EXCEPT ![di + 1] = dm]
    /\ di' = di + 1
    /\ dpc' = "loop"
    /\ UNCHANGED <<mgrVars, now, callerVars, panicMsg, chanVars, tm, dm, wat, smtpCalls>>

(* wg.Wait() left out: the dispatcher goes on to close at once. *)
WaitReturnsAtOnce == TRUE

(* the loop ends; wg.Wait() returns when the counter is zero *)
WaitReturns == wg = 0

DispWait ==
    /\ dpc = "loop"
    /\ di >= tm
    /\ WaitReturns
    /\ dpc' = "close"
    /\ UNCHANGED <<mgrVars, now, callerVars, panicMsg, chanVars, tm, di, dm, wg, workerVars>>

(* defer close(ch) *)
DispClose ==
    /\ dpc = "close"
    /\ closed' = closed + 1
    /\ dpc' = "done"
    /\ UNCHANGED <<mgrVars, now, callerVars, panicMsg, made, ch, tm, di, dm, wg, workerVars>>

(* ------------------------------- worker -------------------------------- *)
(* A worker that sets Sending without publishing it. *)
WorkerSendingSilent(s) ==
    /\ wpc[s] = "start"
    /\ wm' = [wm EXCEPT ![s].Status = Sending]
    /\ wpc' = [wpc EXCEPT ![s] = "build"]
    /\ UNCHANGED <<mgrVars, now, callerVars, panicMsg, chanVars, dispVars, wg, wat, smtpCalls>>

(* m.Status = Sending; ch <- m *)
WorkerSending(s) ==
    /\ wpc[s] = "start"
    /\ CanSend
    /\ wm' = [wm EXCEPT ![s].Status = Sending]
    /\ ChanSend(Snapshot(s, wm'[s], now))
    /\ wpc' = [wpc EXCEPT ![s] = "build"]
    /\ UNCHANGED <<mgrVars, now, callerVars, dispVars, wg, wat, smtpCalls>>

(* The failure path without m.Error = err. *)
FailedNoError(m, err, t) == [m EXCEPT !.Status = SendError, !.DateStatus = t]

(* m.Status = SendError; m.DateStatus = time.Now(); m.Error = err *)
Failed(m, err, t) == [m EXCEPT !.Status = SendError, !.DateStatus = t, !.Error = err]

(* m.Status = Sent; m.DateStatus = time.Now() *)
Succeeded(m, t) == [m EXCEPT !.Status = Sent, !.DateStatus = t]

(* A worker that returns on a validation error without publishing it. *)
WorkerBuildReturnsOnError(s) ==
    /\ wpc[s] = "build"
    /\ LET m == wm[s]
           e == IF Tolist(m).err # NilErr THEN Tolist(m).err ELSE BytesErr(m)
       IN  IF e # NilErr
           THEN /\ wm' = [wm EXCEPT ![s] = [m EXCEPT !.Status = SendError, !.DateStatus = now,
                                                     !.Error = e]]
                /\ wat' = [wat EXCEPT ![s] = now]
                /\ wpc' = [wpc EXCEPT ![s] = "exit"]
           ELSE /\ wpc' = [wpc EXCEPT ![s] = "submit"]
                /\ UNCHANGED <<wm, wat>>
    /\ UNCHANGED <<mgrVars, now, callerVars, panicMsg, chanVars, dispVars, wg, smtpCalls>>

(* A worker that stops at the first validation error found in the batch,  *)
(* its own message's or a sibling's.                                       *)
WorkerBuildSharedError(s) ==
    /\ wpc[s] = "build"
    /\ LET m == wm[s]
           errs == [k \in 1..tm |-> IF Tolist(Messages[k]).err # NilErr
                                    THEN Tolist(Messages[k]).err ELSE BytesErr(Messages[k])]
           bad == {k \in 1..tm : errs[k] # NilErr}
       IN  IF bad # {}
           THEN /\ wm' = [wm EXCEPT ![s] = [m EXCEPT !.Status = SendError, !.DateStatus = now,
                                                     !.Error = errs[CHOOSE k \in bad : TRUE]]]
                /\ wat' = [wat EXCEPT ![s] = now]
                /\ wpc' = [wpc EXCEPT ![s] = "term"]
           ELSE /\ wpc' = [wpc EXCEPT ![s] = "submit"]
                /\ UNCHANGED <<wm, wat>>
    /\ UNCHANGED <<mgrVars, now, callerVars, panicMsg, chanVars, dispVars, wg, smtpCalls>>

(* list, err := m.Tolist(); data, err := m.Bytes() *)
WorkerBuild(s) ==
    /\ wpc[s] = "build"
    /\ LET m == wm[s]
           e == IF Tolist(m).err # NilErr THEN Tolist(m).err ELSE BytesErr(m)
       IN  IF e # NilErr
           THEN /\ wm' = [wm EXCEPT ![s] = Failed(m, e, now)]
                /\ wat' = [wat EXCEPT ![s] = now]
                /\ wpc' = [wpc EXCEPT ![s] = "term"]
           ELSE /\ wpc' = [wpc EXCEPT ![s] = "submit"]
                /\ UNCHANGED <<wm, wat>>
    /\ UNCHANGED <<mgrVars, now, callerVars, panicMsg, chanVars, dispVars, wg, smtpCalls>>

(* A worker that stores its result in the batch slot. *)
WorkerSubmitWriteBack(s, err) ==
    /\ wpc[s] = "submit"
    /\ smtpCalls' = [smtpCalls EXCEPT ![s] =
           Append(@, [from |-> wm[s].From.Address, rcpt |-> Tolist(wm[s]).list,
                      auth |-> Client, err |-> err])]
    /\ wm' = [wm EXCEPT ![s] = IF err # NilErr
                               THEN [@ EXCEPT !.Status = SendError, !.DateStatus = now, !.Error = err]
                               ELSE [@ EXCEPT !.Status = Sent, !.DateStatus = now]]
    /\ Messages' = [Messages EXCEPT ![s] = wm'[s]]
    /\ wat' = [wat EXCEPT ![s] = now]
    /\ wpc' = [wpc EXCEPT ![s] = "term"]
    /\ UNCHANGED <<Client, now, callerVars, panicMsg, chanVars, dispVars, wg>>

(* A worker that submits again after a transport error. *)
WorkerSubmitRetries(s, err) ==
    /\ wpc[s] = "submit"
    /\ smtpCalls' = [smtpCalls EXCEPT ![s] =
           Append(@, [from |-> wm[s].From.Address, rcpt |-> Tolist(wm[s]).list,
                      auth |-> Client, err |-> err])]
    /\ wm' = [wm EXCEPT ![s] = IF err # NilErr THEN Failed(@, err, now) ELSE Succeeded(@, now)]
    /\ wat' = [wat EXCEPT ![s] = now]
    /\ wpc' = [wpc EXCEPT ![s] = IF err # NilErr /\ smtpCalls[s] = <<>> THEN "submit" ELSE "term"]
    /\ UNCHANGED <<mgrVars, now, callerVars, panicMsg, chanVars, dispVars, wg>>

(* err = smtp.SendMail(addr, o.Client, m.From.Address, list, data) *)
WorkerSubmit(s, err) ==
    /\ wpc[s] = "submit"
    /\ smtpCalls' = [smtpCalls EXCEPT ![s] =
           Append(@, [from |-> wm[s].From.Address, rcpt |-> Tolist(wm[s]).list,
                      auth |-> Client, err |-> err])]
    /\ wm' = [wm EXCEPT ![s] = IF err # NilErr THEN Failed(@, err, now) ELSE Succeeded(@, now)]
    /\ wat' = [wat EXCEPT ![s] = now]
    /\ wpc' = [wpc EXCEPT ![s] = "term"]
    /\ UNCHANGED <<mgrVars, now, callerVars, panicMsg, chanVars, dispVars, wg>>

(* ch <- m with the terminal status *)
WorkerTerminal(s) ==
    /\ wpc[s] = "term"
    /\ CanSend
    /\ ChanSend(Snapshot(s, wm[s], wat[s]))
    /\ wpc' = [wpc EXCEPT ![s] = "exit"]
    /\ UNCHANGED <<mgrVars, now, callerVars, dispVars, wg, wm, wat, smtpCalls>>

(* A worker that exits without wg.Done(). *)
WorkerDoneKeepsCount(s) ==
    /\ wpc[s] = "exit"
    /\ wpc' = [wpc EXCEPT ![s] = "done"]
    /\ UNCHANGED <<mgrVars, now, callerVars, panicMsg, chanVars, dispVars, wg, wm, wat, smtpCalls>>

(* defer wg.Done() *)
WorkerDone(s) ==
    /\ wpc[s] = "exit"
    /\ wg' = wg - 1
    /\ wpc' = [wpc EXCEPT ![s] = "done"]
    /\ UNCHANGED <<mgrVars, now, callerVars, panicMsg, chanVars, dispVars, wm, wat, smtpCalls>>

(* ------------------------------- clock --------------------------------- *)
Tick ==
    /\ now < MaxTime
    /\ now' = now + 1
    /\ UNCHANGED <<mgrVars, callerVars, panicMsg, chanVars, dispVars, wg, workerVars>>

(* ----------------------------- batch lock ------------------------------ *)
(* The same calls taken one statement at a time, with o.MessagesMT: the    *)
(* caller is one goroutine, the dispatcher another.                        *)
unchangedByCaller == <<now, sendRet, cancelRet, received, chanVars, dispVars, wg, workerVars>>

(* the caller calls o.AddMessage(m) *)
CallAddMessage(m) ==
    /\ cpc = "idle"
    /\ cpc' = "AddMessage"
    /\ carg' = <<m>>
    /\ UNCHANGED <<mt, mgrVars, statusRet, panicMsg, unchangedByCaller>>

(* the caller calls o.AddMessages(ms) *)
CallAddMessages(ms) ==
    /\ cpc = "idle"
    /\ cpc' = "AddMessages"
    /\ carg' = ms
    /\ UNCHANGED <<mt, mgrVars, statusRet, panicMsg, unchangedByCaller>>

(* o.MessagesMT.Lock() in AddMessage / AddMessages *)
AddLock ==
    /\ cpc \in {"AddMessage", "AddMessages"}
    /\ mt = ""
    /\ mt' = "caller"
    /\ cpc' = IF cpc = "AddMessage" THEN "AddMessage.locked" ELSE "AddMessages.locked"
    /\ UNCHANGED <<carg, mgrVars, statusRet, panicMsg, unchangedByCaller>>

(* An append that goes on reading the slice after the call has returned. *)
AddAppendLive ==
    /\ cpc \in {"AddMessage.locked", "AddMessages.locked"}
    /\ Messages' = Messages \o carg
    /\ tm' = IF dpc \in {"none", "start"} THEN tm ELSE Len(Messages')
    /\ mt' = ""
    /\ cpc' = "idle"
    /\ carg' = <<>>
    /\ UNCHANGED <<Client, statusRet, panicMsg, now, sendRet, cancelRet, received, chanVars,
                   dpc, di, dm, wg, workerVars>>

(* o.Messages = append(o.Messages, m...); the deferred Unlock runs *)
AddAppend ==
    /\ cpc \in {"AddMessage.locked", "AddMessages.locked"}
    /\ Messages' = Messages \o carg
    /\ mt' = ""
    /\ cpc' = "idle"
    /\ carg' = <<>>
    /\ UNCHANGED <<Client, statusRet, panicMsg, unchangedByCaller>>

(* the caller calls o.SendStatus() *)
CallSendStatus ==
    /\ cpc = "idle"
    /\ cpc' = "SendStatus"
    /\ UNCHANGED <<mt, carg, mgrVars, statusRet, panicMsg, unchangedByCaller>>

(* ready, err := o.setup() in SendStatus: writes o.Client *)
SendStatusSetup ==
    /\ cpc = "SendStatus"
    /\ LET r == setup
       IN  /\ Client' = r.client
           /\ IF ~r.ready
              THEN /\ statusRet' = [returned |-> TRUE, ready |-> FALSE, sent |-> 0, total |-> 0,
                                    err |-> r.err, afterClose |-> closed > 0]
                   /\ cpc' = "idle"
              ELSE /\ cpc' = "SendStatus.setup"
                   /\ UNCHANGED statusRet
    /\ UNCHANGED <<mt, carg, Messages, panicMsg, unchangedByCaller>>

(* o.MessagesMT.Lock() in SendStatus *)
SendStatusLock ==
    /\ cpc = "SendStatus.setup"
    /\ mt = ""
    /\ mt' = "caller"
    /\ cpc' = "SendStatus.locked"
    /\ UNCHANGED <<carg, mgrVars, statusRet, panicMsg, unchangedByCaller>>

(* the scan, the quotient, and the deferred Unlock *)
SendStatusReturn ==
    /\ cpc = "SendStatus.locked"
    /\ statusRet' = [returned |-> TRUE, ready |-> TRUE,
                     sent |-> SentCount(Messages), total |-> Len(Messages),
                     err |-> NilErr, afterClose |-> closed > 0]
    /\ mt' = ""
    /\ cpc' = "idle"
    /\ UNCHANGED <<carg, mgrVars, panicMsg, unchangedByCaller>>

(* the caller calls o.CancelSend() *)
CallCancelSend ==
    /\ cpc = "idle"
    /\ cpc' = "CancelSend"
    /\ UNCHANGED <<mt, carg, mgrVars, statusRet, panicMsg, unchangedByCaller>>

(* ready, err := o.setup() in CancelSend, then panic("implement me") *)
CancelSendSetup ==
    /\ cpc = "CancelSend"
    /\ LET r == setup
       IN  /\ Client' = r.client
           /\ IF ~r.ready
              THEN /\ cancelRet' = [returned |-> TRUE, ready |-> FALSE, ok |-> FALSE, err |-> r.err]
                   /\ UNCHANGED panicMsg
              ELSE /\ panicMsg' = "implement me"
                   /\ UNCHANGED cancelRet
    /\ cpc' = "idle"
    /\ UNCHANGED <<mt, carg, Messages, now, sendRet, statusRet, received, chanVars,
                   dispVars, wg, workerVars>>

(* the caller calls o.Send(), between two other calls *)
CallSend ==
    /\ cpc = "idle"
    /\ Send
    /\ UNCHANGED lockVars

(* tm := len(o.Messages), read with no lock held: while the caller is      *)
(* inside its append the read returns the length before or after it.       *)
DispStartUnlocked ==
    /\ dpc = "start"
    /\ \E n \in {Len(Messages)} \cup
                 (IF cpc \in {"AddMessage.locked", "AddMessages.locked"}
                  THEN {Len(Messages) + Len(carg)} ELSE {}) :
          tm' = n
    /\ di' = 0
    /\ dpc' = "loop"
    /\ UNCHANGED <<lockVars, mgrVars, now, callerVars, panicMsg, chanVars, dm, wg, workerVars>>

(* i < tm; o.MessagesMT.Lock() *)
DispLock ==
    /\ dpc = "loop"
    /\ di < tm
    /\ mt = ""
    /\ mt' = "dispatcher"
    /\ dpc' = "locked"
    /\ UNCHANGED <<cpc, carg, mgrVars, now, callerVars, panicMsg, chanVars, tm, di, dm, wg,
                   workerVars>>

(* A dispatcher that reads the slot and goes on to its send without Unlock(). *)
DispReadHoldsLock ==
    /\ dpc = "locked"
    /\ dm' = Messages[di + 1]
    /\ dpc' = "publish"
    /\ UNCHANGED <<lockVars, mgrVars, now, callerVars, panicMsg, chanVars, tm, di, wg, workerVars>>

(* m := o.Messages[i]; o.MessagesMT.Unlock() *)
DispReadUnlock ==
    /\ dpc = "locked"
    /\ IF di + 1 \in 1..Len(Messages)
       THEN /\ dm' = Messages[di + 1]
            /\ dpc' = "publish"
            /\ mt' = ""
            /\ UNCHANGED panicMsg
       ELSE /\ panicMsg' = "index out of range"
            /\ UNCHANGED <<dm, dpc, mt>>
    /\ UNCHANGED <<cpc, carg, mgrVars, now, callerVars, chanVars, tm, di, wg, workerVars>>

(* ------------------------------ builder -------------------------------- *)
(* NewMessage with all its fields: the body content type defaults to       *)
(* text/html, Attachments is an empty map, Headers is nil.                 *)
NewMessageFull(from, subject, body, bodyContentType, mailTo, cc, bcc, reply, t) ==
    NewMessage("", from, subject, mailTo, cc, bcc, t) @@
    [Body |-> body, Reply |-> reply,
     BodyContentType |-> IF bodyContentType = "" THEN "text/html" ELSE bodyContentType,
     Headers |-> <<>>, Attachments |-> <<>>]

unchangedByBuilder == <<sendVars, authVars, lockVars, poolVars>>

(* No builder call made yet. *)
NoCall == [op |-> "", name |-> <<>>, data |-> <<>>, inline |-> FALSE,
           err |-> NilErr, list |-> <<>>, store |-> "", out |-> <<>>]

BuilderIdle ==
    /\ msg = NewMessageFull(GoodFrom, <<>>, <<>>, "", <<>>, <<>>, <<>>, <<>>, 0)
    /\ ret = NoCall
    /\ calls = <<>>

(* The array behind the slice Tolist() returns: that of parsedAddresses,   *)
(* made by Tolist() itself, like that of allRecipients; none on error.     *)
TolistStore(m) == IF Tolist(m).err # NilErr THEN "" ELSE "parsedAddresses"

(* A Tolist() that gathers the recipients in m.MailTo itself. *)
CallTolistInPlace ==
    /\ ret' = [NoCall EXCEPT !.op = "Tolist", !.list = Tolist(msg).list, !.err = Tolist(msg).err,
                             !.store = TolistStore(msg)]
    /\ msg' = IF Tolist(msg).err # NilErr THEN msg
              ELSE [msg EXCEPT !.MailTo = msg.MailTo \o msg.CC \o msg.BCC]
    /\ UNCHANGED <<calls, unchangedByBuilder>>

(* list, err := m.Tolist() *)
CallTolist ==
    /\ ret' = [NoCall EXCEPT !.op = "Tolist", !.list = Tolist(msg).list, !.err = Tolist(msg).err,
                             !.store = TolistStore(msg)]
    /\ UNCHANGED <<msg, calls, unchangedByBuilder>>

(* validFilenameRegex = [^a-zA-Z0-9._-]+ matches every maximal run of      *)
(* characters outside this set.                                            *)
ValidFilenameChars ==
    { "a","b","c","d","e","f","g","h","i","j","k","l","m",
      "n","o","p","q","r","s","t","u","v","w","x","y","z",
      "A","B","C","D","E","F","G","H","I","J","K","L","M",
      "N","O","P","Q","R","S","T","U","V","W","X","Y","Z",
      "0","1","2","3","4","5","6","7","8","9", ".", "_", "-" }

(* ReplaceAllString(filename, "_") from position i on; inMatch says that   *)
(* position i - 1 belongs to a match already replaced.                     *)
RECURSIVE ReplaceAllFrom(_, _, _)
ReplaceAllFrom(filename, i, inMatch) ==
    IF i > Len(filename) THEN <<>>
    ELSE IF filename[i] \in ValidFilenameChars
         THEN <<filename[i]>> \o ReplaceAllFrom(filename, i + 1, FALSE)
         ELSE (IF inMatch THEN <<>> ELSE <<"_">>) \o ReplaceAllFrom(filename, i + 1, TRUE)

(* sanitizeFilename that replaces character by character. *)
sanitizeEachChar(filename) ==
    [i \in 1..Len(filename) |->
        IF filename[i] \in ValidFilenameChars THEN filename[i] ELSE "_"]

sanitizeFilename(filename) == ReplaceAllFrom(filename, 1, FALSE)

(* filepath.Base: the last element of the path, trailing separators       *)
(* removed; "." for the empty path, "/" for a path of separators only.     *)
RECURSIVE StripTrailingSlashes(_)
StripTrailingSlashes(path) ==
    IF path # <<>> /\ path[Len(path)] = "/"
    THEN StripTrailingSlashes(SubSeq(path, 1, Len(path) - 1))
    ELSE path

Base(path) ==
    IF path = <<>> THEN <<".">>
    ELSE LET p == StripTrailingSlashes(path)
             seps == {i \in 1..Len(p) : p[i] = "/"}
         IN  IF p = <<>> THEN <<"/">>
             ELSE IF seps = {} THEN p
             ELSE SubSeq(p, (CHOOSE i \in seps : \A j \in seps : j <= i) + 1, Len(p))

(* os.ReadFile: the files that can be read are those whose path ends in    *)
(* the character "a"; every other path (empty, a directory, a missing      *)
(* file) fails.                                                            *)
ReadFile(file) ==
    IF file # <<>> /\ file[Len(file)] = "a"
    THEN [data |-> <<Len(file) + 2>>, err |-> NilErr]
    ELSE [data |-> <<>>, err |-> <<"open: no such file or directory">>]

(* m.Attachments[filename] = &Attachment{Filename, Data, Inline} *)
Store(m, filename, data, inline) ==
    [m EXCEPT !.Attachments =
        (filename :> [Filename |-> filename, Data |-> data, Inline |-> inline]) @@ @]

(* The builder call just made, remembered as the last call and in calls. *)
Returned(call) ==
    /\ ret' = call
    /\ calls' = Append(calls, call)

(* attach that stores the attachment before looking at the read error. *)
attachStoresOnError(file, inline) ==
    LET r == ReadFile(file)
        filename == sanitizeFilename(Base(file))
    IN  /\ msg' = Store(msg, filename, r.data, inline)
        /\ Returned([NoCall EXCEPT !.op = "attach", !.name = file, !.inline = inline,
                        !.data = r.data,
                        !.err = IF r.err # NilErr
                                THEN <<"failed to attach file">> \o file \o r.err
                                ELSE NilErr])
        /\ UNCHANGED unchangedByBuilder

attach(file, inline) ==
    LET r == ReadFile(file)
        filename == sanitizeFilename(Base(file))
    IN  /\ IF r.err # NilErr
           THEN /\ Returned([NoCall EXCEPT !.op = "attach", !.name = file, !.inline = inline,
                                !.err = <<"failed to attach file">> \o file \o r.err])
                /\ UNCHANGED msg
           ELSE /\ msg' = Store(msg, filename, r.data, inline)
                /\ Returned([NoCall EXCEPT !.op = "attach", !.name = file, !.inline = inline,
                                !.data = r.data])
        /\ UNCHANGED unchangedByBuilder

Attach(file) == attach(file, FALSE)

Inline(file) == attach(file, TRUE)

(* AttachBuffer that keeps the entry already stored under the key. *)
AttachBufferKeepsFirst(filename, buf, inline) ==
    /\ IF Len(buf) = 0
       THEN /\ Returned([NoCall EXCEPT !.op = "AttachBuffer", !.name = filename, !.inline = inline,
                            !.err = <<"buffer for attachment is empty">> \o filename])
            /\ UNCHANGED msg
       ELSE /\ msg' = IF sanitizeFilename(filename) \in DOMAIN msg.Attachments THEN msg
                      ELSE Store(msg, sanitizeFilename(filename), buf, inline)
            /\ Returned([NoCall EXCEPT !.op = "AttachBuffer", !.name = filename, !.inline = inline,
                            !.data = buf])
    /\ UNCHANGED unchangedByBuilder

AttachBuffer(filename, buf, inline) ==
    /\ IF Len(buf) = 0
       THEN /\ Returned([NoCall EXCEPT !.op = "AttachBuffer", !.name = filename, !.inline = inline,
                            !.err = <<"buffer for attachment is empty">> \o filename])
            /\ UNCHANGED msg
       ELSE /\ msg' = Store(msg, sanitizeFilename(filename), buf, inline)
            /\ Returned([NoCall EXCEPT !.op = "AttachBuffer", !.name = filename, !.inline = inline,
                            !.data = buf])
    /\ UNCHANGED unchangedByBuilder

(* header := m.AddHeader(key, value) *)
AddHeader(key, value) ==
    /\ msg' = [msg EXCEPT !.Headers = Append(@, [Key |-> key, Value |-> value])]
    /\ Returned([NoCall EXCEPT !.op = "AddHeader", !.name = <<key>>, !.data = <<value>>])
    /\ UNCHANGED unchangedByBuilder

(* The output of Bytes() is modelled as its sequence of lines, each        *)
(* written with a trailing CRLF; a line is a sequence of pieces of text.   *)
(* m.Body is the sequence of the lines of the body text.                   *)
boundary == "f46d043c813270fc6b04c2d223da"

BoundaryLine == <<"--" \o boundary>>

ClosingLine == <<"--" \o boundary \o "--">>

(* []byte(s) for a string of code points: its UTF-8 encoding. *)
RECURSIVE UTF8(_)
UTF8(s) ==
    IF s = <<>> THEN <<>>
    ELSE LET r == Head(s)
         IN  (IF r < 128 THEN <<r>>
              ELSE IF r < 2048 THEN <<192 + (r \div 64), 128 + (r % 64)>>
              ELSE <<224 + (r \div 4096), 128 + ((r \div 64) % 64), 128 + (r % 64)>>)
             \o UTF8(Tail(s))

StdEncoding ==
    << "A","B","C","D","E","F","G","H","I","J","K","L","M",
       "N","O","P","Q","R","S","T","U","V","W","X","Y","Z",
       "a","b","c","d","e","f","g","h","i","j","k","l","m",
       "n","o","p","q","r","s","t","u","v","w","x","y","z",
       "0","1","2","3","4","5","6","7","8","9","+","/" >>

(* base64.StdEncoding.EncodeToString / Encode: three bytes give four       *)
(* characters, the last group is padded with "=".                          *)
RECURSIVE EncodeToString(_)
EncodeToString(b) ==
    IF Len(b) = 0 THEN <<>>
    ELSE IF Len(b) = 1
    THEN <<StdEncoding[(b[1] \div 4) + 1], StdEncoding[((b[1] % 4) * 16) + 1], "=", "=">>
    ELSE IF Len(b) = 2
    THEN <<StdEncoding[(b[1] \div 4) + 1], StdEncoding[((b[1] % 4) * 16) + (b[2] \div 16) + 1],
           StdEncoding[((b[2] % 16) * 4) + 1], "=">>
    ELSE <<StdEncoding[(b[1] \div 4) + 1], StdEncoding[((b[1] % 4) * 16) + (b[2] \div 16) + 1],
           StdEncoding[((b[2] % 16) * 4) + (b[3] \div 64) + 1], StdEncoding[(b[3] % 64) + 1]>>
         \o EncodeToString(SubSeq(b, 4, Len(b)))

(* strings.Join(list, ", ") *)
RECURSIVE Join(_)
Join(list) ==
    IF list = <<>> THEN <<>>
    ELSE IF Len(list) = 1 THEN <<list[1]>>
    ELSE <<list[1], ", ">> \o Join(Tail(list))

(* mail.Address.String() of a parsable address. *)
AddressString(a) ==
    IF a.Name = "" THEN "<" \o a.Address \o ">"
    ELSE "\"" \o a.Name \o "\" <" \o a.Address \o ">"

(* m.MailTo = append(m.MailTo, address.String()); return m.MailTo *)
AddTo(address) ==
    /\ msg' = [msg EXCEPT !.MailTo = Append(@, AddressString(address))]
    /\ Returned([NoCall EXCEPT !.op = "AddTo", !.list = Append(msg.MailTo, AddressString(address))])
    /\ UNCHANGED unchangedByBuilder

(* time.Now().Format(time.RFC1123Z) at logical time t. *)
RFC1123Z(t) ==
    "Thu, 01 Jan 1970 00:00:0" \o
    <<"0", "1", "2", "3", "4", "5", "6", "7", "8", "9">>[t + 1] \o " +0000"

(* filepath.Ext: the suffix of the name that starts at its last dot. *)
Ext(filename) ==
    LET dots == {i \in 1..Len(filename) : filename[i] = "."}
    IN  IF dots = {} THEN <<>>
        ELSE SubSeq(filename, CHOOSE i \in dots : \A j \in dots : j <= i, Len(filename))

(* mime.TypeByExtension *)
TypeByExtension(ext) ==
    IF ext = <<".", "t", "x", "t">> THEN "text/plain; charset=utf-8" ELSE ""

(* The header lines up to MIME-Version that always write the Cc line. *)
HeaderLinesAlwaysCc(m, t) ==
    << <<"From", ": ", AddressString(m.From)>>,
       <<"Date", ": ", RFC1123Z(t)>>,
       <<"To", ": ">> \o Join(m.MailTo) >>
    \o << <<"Cc", ": ">> \o Join(m.CC) >>
    \o << <<"Subject", ": ", "=?UTF-8?B?">> \o EncodeToString(UTF8(m.Subject)) \o <<"?=">> >>
    \o (IF Len(m.Reply) > 0 THEN << <<"Reply-To", ": ">> \o Join(m.Reply) >> ELSE <<>>)
    \o << <<"MIME-Version", ": ", "1.0">> >>
    \o [i \in 1..Len(m.Headers) |-> <<m.Headers[i].Key, ": ", m.Headers[i].Value>>]

(* The header lines with a Bcc line after Cc. *)
HeaderLinesWithBcc(m, t) ==
    << <<"From", ": ", AddressString(m.From)>>,
       <<"Date", ": ", RFC1123Z(t)>>,
       <<"To", ": ">> \o Join(m.MailTo) >>
    \o (IF Len(m.CC) > 0 THEN << <<"Cc", ": ">> \o Join(m.CC) >> ELSE <<>>)
    \o (IF Len(m.BCC) > 0 THEN << <<"Bcc", ": ">> \o Join(m.BCC) >> ELSE <<>>)
    \o << <<"Subject", ": ", "=?UTF-8?B?">> \o EncodeToString(UTF8(m.Subject)) \o <<"?=">> >>
    \o (IF Len(m.Reply) > 0 THEN << <<"Reply-To", ": ">> \o Join(m.Reply) >> ELSE <<>>)
    \o << <<"MIME-Version", ": ", "1.0">> >>
    \o [i \in 1..Len(m.Headers) |-> <<m.Headers[i].Key, ": ", m.Headers[i].Value>>]

(* The header lines Bytes() writes before the Content-Type line. *)
HeaderLines(m, t) ==
    << <<"From", ": ", AddressString(m.From)>>,
       <<"Date", ": ", RFC1123Z(t)>>,
       <<"To", ": ">> \o Join(m.MailTo) >>
    \o (IF Len(m.CC) > 0 THEN << <<"Cc", ": ">> \o Join(m.CC) >> ELSE <<>>)
    \o << <<"Subject", ": ", "=?UTF-8?B?">> \o EncodeToString(UTF8(m.Subject)) \o <<"?=">> >>
    \o (IF Len(m.Reply) > 0 THEN << <<"Reply-To", ": ">> \o Join(m.Reply) >> ELSE <<>>)
    \o << <<"MIME-Version", ": ", "1.0">> >>
    \o [i \in 1..Len(m.Headers) |-> <<m.Headers[i].Key, ": ", m.Headers[i].Value>>]

(* m.Body + CRLF: the lines of the body, one empty line for an empty body. *)
BodyLines(m) == IF m.Body = <<>> THEN << <<>> >> ELSE m.Body

(* The part written for one attachment. *)
AttachmentPart(att) ==
    << BoundaryLine,
       <<"Content-Type", ": ",
         IF TypeByExtension(Ext(att.Filename)) = "" THEN "application/octet-stream"
         ELSE TypeByExtension(Ext(att.Filename))>>,
       <<"Content-Disposition", ": ", "attachment", "; filename=\"">> \o att.Filename \o <<"\"">>,
       <<"Content-Transfer-Encoding", ": ", "base64">>,
       <<>>,
       EncodeToString(att.Data) >>

RECURSIVE AttachmentParts(_, _)
AttachmentParts(m, order) ==
    IF order = <<>> THEN <<>>
    ELSE AttachmentPart(m.Attachments[Head(order)]) \o AttachmentParts(m, Tail(order))

(* Message.Bytes at time t; order is the order in which the range over the *)
(* Attachments map visits its keys.                                        *)
Bytes(m, order, t) ==
    IF BytesErr(m) # NilErr THEN [out |-> <<>>, err |-> BytesErr(m)]
    ELSE IF Len(order) > 0
    THEN [out |-> HeaderLines(m, t)
                  \o << <<"Content-Type", ": ", "multipart/mixed; boundary=", boundary>>,
                        <<>>,
                        BoundaryLine,
                        <<"Content-Type", ": ", m.BodyContentType, "; charset=utf-8">>,
                        <<>> >>
                  \o BodyLines(m)
                  \o AttachmentParts(m, order)
                  \o << ClosingLine >>,
          err |-> NilErr]
    ELSE [out |-> HeaderLines(m, t)
                  \o << <<"Content-Type", ": ", m.BodyContentType, "; charset=utf-8">>,
                        <<>> >>
                  \o BodyLines(m),
          err |-> NilErr]

(* The orders in which a range over a map with key set S may visit it. *)
Orders(S) ==
    { o \in [1..Cardinality(S) -> S] : \A i, j \in 1..Cardinality(S) : i # j => o[i] # o[j] }

(* out, err := m.Bytes() *)
CallBytes ==
    /\ \E order \in Orders(DOMAIN msg.Attachments) :
          ret' = [NoCall EXCEPT !.op = "Bytes", !.out = Bytes(msg, order, now).out,
                                !.err = Bytes(msg, order, now).err]
    /\ UNCHANGED <<msg, calls, unchangedByBuilder>>

(* ----------------------------- bufferPool ------------------------------ *)
(* Bytes() takes a *bytes.Buffer from bufferPool, resets it, writes to it, *)
(* returns buf.Bytes(), a slice of the buffer's own array, and its         *)
(* deferred Put hands the buffer back.  The array is modelled line by      *)
(* line: writing after Reset() replaces its first lines and leaves the     *)
(* rest.  buffers holds the arrays; a buffer is named by the array it      *)
(* currently writes to, and a write that outgrows a used array moves the   *)
(* buffer to a new array, leaving the old one to the slices that still     *)
(* point at it.                                                            *)
Overwrite(old, new) == new \o SubSeq(old, Len(new) + 1, Len(old))

(* What Bytes() has written to the buffer when it returns: nothing when    *)
(* the sender does not parse, the lines up to Cc when the subject is not   *)
(* UTF-8, the whole message otherwise.                                     *)
BytesWritten(m, order, t) ==
    IF ParseAddress(m.From.Address).err # NilErr THEN <<>>
    ELSE IF ~isUTF8(m.Subject)
         THEN SubSeq(HeaderLines(m, t), 1, IF Len(m.CC) > 0 THEN 4 ELSE 3)
         ELSE Bytes(m, order, t).out

unchangedByBytes == <<mgrVars, now, callerVars, panicMsg, chanVars, dispVars, wg, smtpCalls>>

(* list, err := m.Tolist(); then in Bytes(): buf := bufferPool.Get(), a    *)
(* buffer lying in the pool or a new one from New; buf.Reset()             *)
WorkerGetBuffer(s) ==
    /\ wpc[s] = "build"
    /\ IF Tolist(wm[s]).err # NilErr
       THEN /\ wm' = [wm EXCEPT ![s] = Failed(@, Tolist(wm[s]).err, now)]
            /\ wat' = [wat EXCEPT ![s] = now]
            /\ wpc' = [wpc EXCEPT ![s] = "term"]
            /\ UNCHANGED poolVars
       ELSE /\ \/ \E b \in bufferPool :
                    /\ bufferPool' = bufferPool \ {b}
                    /\ wbuf' = [wbuf EXCEPT ![s] = b]
                    /\ UNCHANGED buffers
               \/ /\ buffers' = Append(buffers, <<>>)
                  /\ wbuf' = [wbuf EXCEPT ![s] = Len(buffers) + 1]
                  /\ UNCHANGED bufferPool
            /\ wpc' = [wpc EXCEPT ![s] = "bytes"]
            /\ UNCHANGED <<wm, wat, wdata>>
    /\ UNCHANGED unchangedByBytes

(* The writes of Bytes(), its return and the deferred bufferPool.Put(buf). *)
(* Output longer than a used array either fits its spare capacity or makes *)
(* the buffer grow after k lines: to is the array the buffer ends on.      *)
WorkerBytes(s) ==
    /\ wpc[s] = "bytes"
    /\ \E order \in Orders(DOMAIN wm[s].Attachments) :
          LET r == Bytes(wm[s], order, now)
              w == BytesWritten(wm[s], order, now)
              b == wbuf[s]
          IN  /\ \E to \in {b, Len(buffers) + 1} :
                    /\ IF to = b
                       THEN buffers' = [buffers EXCEPT ![b] = Overwrite(@, w)]
                       ELSE /\ Len(buffers[b]) > 0
                            /\ Len(w) > Len(buffers[b])
                            /\ \E k \in 0..Len(buffers[b]) :
                                  buffers' = Append([buffers EXCEPT ![b] = Overwrite(@, SubSeq(w, 1, k))], w)
                    /\ bufferPool' = bufferPool \cup {to}
                    /\ wbuf' = [wbuf EXCEPT ![s] = 0]
                    /\ IF r.err # NilErr
                       THEN wdata' = [wdata EXCEPT ![s] = [NoData EXCEPT !.err = r.err]]
                       ELSE wdata' = [wdata EXCEPT ![s] = [buf |-> to, len |-> Len(r.out),
                                                          out |-> r.out, err |-> NilErr]]
              /\ IF r.err # NilErr
                 THEN /\ wm' = [wm EXCEPT ![s] = Failed(@, r.err, now)]
                      /\ wat' = [wat EXCEPT ![s] = now]
                      /\ wpc' = [wpc EXCEPT ![s] = "term"]
                 ELSE /\ wpc' = [wpc EXCEPT ![s] = "submit"]
                      /\ UNCHANGED <<wm, wat>>
    /\ UNCHANGED unchangedByBytes

(* What smtp.SendMail may read through the slice data of worker s: the     *)
(* first lines of the buffer's array as they are, or, while another worker *)
(* is writing to that buffer, with any number of that worker's lines       *)
(* already written.                                                        *)
DataRead(s) ==
    LET b == wdata[s].buf
        writing == UNION { { BytesWritten(wm[r], order, now) :
                               order \in Orders(DOMAIN wm[r].Attachments) } :
                           r \in {x \in DOMAIN wbuf : wbuf[x] = b} }
    IN  { SubSeq(buffers[b], 1, wdata[s].len) }
        \cup UNION { { SubSeq(Overwrite(buffers[b], SubSeq(w, 1, k)), 1, wdata[s].len) :
                         k \in 0..Len(w) } : w \in writing }

(* err = smtp.SendMail(addr, o.Client, m.From.Address, list, data) *)
WorkerSubmitData(s, err) ==
    /\ wpc[s] = "submit"
    /\ \E d \in DataRead(s) :
          smtpCalls' = [smtpCalls EXCEPT ![s] =
              Append(@, [from |-> wm[s].From.Address, rcpt |-> Tolist(wm[s]).list,
                         auth |-> Client, err |-> err, data |-> d])]
    /\ wm' = [wm EXCEPT ![s] = IF err # NilErr THEN Failed(@, err, now) ELSE Succeeded(@, now)]
    /\ wat' = [wat EXCEPT ![s] = now]
    /\ wpc' = [wpc EXCEPT ![s] = "term"]
    /\ UNCHANGED <<mgrVars, now, callerVars, panicMsg, chanVars, dispVars, wg, poolVars>>

(* --------------------------- authentication ---------------------------- *)
(* AWSAuth and AzureAuth have the same locking: Validate() holds mu for    *)
(* its whole body; Authenticate() locks, tests Authenticated, unlocks,     *)
(* calls Validate(), locks again and authenticates under the lock.         *)
Callers == 1..MaxCallers

(* NewAWSAuthFromAuth / NewAzureAuthFromAuth: unlocked, not authenticated. *)
AuthIdle ==
    /\ mu = 0
    /\ Authenticated = FALSE
    /\ apc = [c \in Callers |-> "idle"]

unchangedByAuth == <<sendVars, builderVars, lockVars, poolVars>>

(* a.mu.Lock() by goroutine c, then on to position next. *)
Lock(c, next) ==
    /\ mu = 0
    /\ mu' = c
    /\ apc' = [apc EXCEPT ![c] = next]

(* goroutine c calls a.Validate() *)
CallValidate(c) ==
    /\ apc[c] = "idle"
    /\ apc' = [apc EXCEPT ![c] = "Validate"]
    /\ UNCHANGED <<mu, Authenticated, unchangedByAuth>>

ValidateLock(c) ==
    /\ apc[c] = "Validate"
    /\ Lock(c, "Validate.locked")
    /\ UNCHANGED <<Authenticated, unchangedByAuth>>

(* Validate() returns, nil or the missing fields; the deferred Unlock runs. *)
ValidateReturn(c) ==
    /\ apc[c] = "Validate.locked"
    /\ mu' = 0
    /\ apc' = [apc EXCEPT ![c] = "idle"]
    /\ UNCHANGED <<Authenticated, unchangedByAuth>>

(* goroutine c calls a.Authenticate() *)
CallAuthenticate(c) ==
    /\ apc[c] = "idle"
    /\ apc' = [apc EXCEPT ![c] = "Authenticate"]
    /\ UNCHANGED <<mu, Authenticated, unchangedByAuth>>

AuthenticateLock(c) ==
    /\ apc[c] = "Authenticate"
    /\ Lock(c, "Authenticate.locked")
    /\ UNCHANGED <<Authenticated, unchangedByAuth>>

(* if a.Authenticated { return nil }; a.mu.Unlock() *)
AuthenticateCheck(c) ==
    /\ apc[c] = "Authenticate.locked"
    /\ IF Authenticated
       THEN /\ apc' = [apc EXCEPT ![c] = "idle"]
            /\ UNCHANGED mu
       ELSE /\ mu' = 0
            /\ apc' = [apc EXCEPT ![c] = "Authenticate.Validate"]
    /\ UNCHANGED <<Authenticated, unchangedByAuth>>

(* a.Validate() inside Authenticate() *)
AuthenticateValidateLock(c) ==
    /\ apc[c] = "Authenticate.Validate"
    /\ Lock(c, "Authenticate.Validate.locked")
    /\ UNCHANGED <<Authenticated, unchangedByAuth>>

(* The fields are exported and not modelled: Validate() may find them      *)
(* complete, or not, and then Authenticate() returns "validation failed".  *)
AuthenticateValidateReturn(c) ==
    /\ apc[c] = "Authenticate.Validate.locked"
    /\ mu' = 0
    /\ \E valid \in BOOLEAN :
          apc' = [apc EXCEPT ![c] = IF valid THEN "Authenticate.relock" ELSE "idle"]
    /\ UNCHANGED <<Authenticated, unchangedByAuth>>

AuthenticateRelock(c) ==
    /\ apc[c] = "Authenticate.relock"
    /\ Lock(c, "Authenticate.session")
    /\ UNCHANGED <<Authenticated, unchangedByAuth>>

(* Session set-up and the identity call succeed or fail; the deferred      *)
(* Unlock runs.                                                            *)
AuthenticateReturn(c) ==
    /\ apc[c] = "Authenticate.session"
    /\ \E ok \in BOOLEAN : Authenticated' = IF ok THEN TRUE ELSE Authenticated
    /\ mu' = 0
    /\ apc' = [apc EXCEPT ![c] = "idle"]
    /\ UNCHANGED unchangedByAuth

(* --------------------------- specifications ---------------------------- *)
restVars == <<builderVars, authVars>>

otherVars == <<restVars, lockVars, poolVars>>

(* Nobody holds the batch lock and no manager call is in progress. *)
LockIdle ==
    /\ mt = ""
    /\ cpc = "idle"
    /\ carg = <<>>

(* bufferPool starts empty: its first Get calls New. *)
PoolIdle ==
    /\ bufferPool = {}
    /\ buffers = <<>>
    /\ wbuf = [s \in Slots |-> 0]
    /\ wdata = [s \in Slots |-> NoData]

Init == SendIdle /\ BuilderIdle /\ AuthIdle /\ LockIdle /\ PoolIdle

Batches(pool) == { <<a>> : a \in pool } \cup { <<a, b>> : a \in pool, b \in pool }

Running == panicMsg = ""

Dispatcher ==
    \/ DispStart
    \/ DispRead
    \/ DispPublish
    \/ DispLaunch
    \/ DispWait
    \/ DispClose

Worker ==
    \/ \E s \in Slots : WorkerSending(s)
    \/ \E s \in Slots : WorkerBuild(s)
    \/ \E s \in Slots, e \in TransportErrs : WorkerSubmit(s, e)
    \/ \E s \in Slots : WorkerTerminal(s)
    \/ \E s \in Slots : WorkerDone(s)

(* The caller builds a batch, calls Send() once and drains the channel;    *)
(* it may add messages while the dispatch runs.                            *)
Caller(pool) ==
    \/ \E m \in pool : AddMessage(m)
    \/ \E ms \in Batches(pool) : AddMessages(ms)
    \/ Send
    \/ Receive

Next == Running /\ (Caller(MsgPool(now)) \/ Dispatcher \/ Worker) /\ UNCHANGED otherVars

Spec == Init /\ [][Next]_vars

(* The same with SendStatus() called at any time. *)
NextStatus ==
    Running /\ (Caller(OkPool(now)) \/ SendStatus \/ Dispatcher \/ Worker) /\ UNCHANGED otherVars

SpecStatus == Init /\ [][NextStatus]_vars

(* The same with CancelSend() called at any time. *)
NextCancel ==
    Running /\ (Caller(OkPool(now)) \/ CancelSend \/ Dispatcher \/ Worker) /\ UNCHANGED otherVars

SpecCancel == Init /\ [][NextCancel]_vars

(* The same with time passing between the steps. *)
NextClock ==
    Running /\ (Caller(OkPool(now)) \/ Tick \/ Dispatcher \/ Worker) /\ UNCHANGED otherVars

SpecClock == Init /\ [][NextClock]_vars

(* A manager whose batch was built before Send() is called, with room for  *)
(* a worker per slot of slots.                                             *)
Prebuilt(batch, slots) ==
    /\ Messages = batch
    /\ Client = <<>>
    /\ now = 0
    /\ sendRet = NoSend
    /\ statusRet = NoStatus
    /\ cancelRet = NoCancel
    /\ panicMsg = ""
    /\ made = FALSE
    /\ ch = <<>>
    /\ closed = 0
    /\ dpc = "none"
    /\ tm = 0
    /\ di = 0
    /\ dm = ZeroMessage
    /\ wg = 0
    /\ wpc = [s \in slots |-> "none"]
    /\ wm = [s \in slots |-> ZeroMessage]
    /\ wat = [s \in slots |-> 0]
    /\ smtpCalls = [s \in slots |-> <<>>]
    /\ received = [s \in slots |-> <<>>]
    /\ BuilderIdle /\ AuthIdle /\ LockIdle /\ PoolIdle

(* The worker goroutine of slot s. *)
WorkerOf(s, errs) ==
    \/ WorkerSending(s)
    \/ WorkerBuild(s)
    \/ \E e \in errs : WorkerSubmit(s, e)
    \/ WorkerTerminal(s)
    \/ WorkerDone(s)

(* One Send() on a prebuilt batch of up to MaxDrain messages, the caller   *)
(* receiving from the channel.  The scheduler runs every goroutine that    *)
(* can take a step, the transport returns, and the caller keeps receiving. *)
DrainSlots == 1..MaxDrain

DrainPool == { NewMessage("ok", GoodFrom, <<72, 105>>, <<"to@example.com">>, <<>>, <<>>, 0) }

InitDrain == \E batch \in SeqsUpTo(DrainPool, MaxDrain) : Prebuilt(batch, DrainSlots)

DrainStep(A) == Running /\ A /\ UNCHANGED otherVars

NextDrain ==
    \/ DrainStep(Send)
    \/ DrainStep(Dispatcher)
    \/ \E s \in DrainSlots : DrainStep(WorkerOf(s, TransportErrs))
    \/ DrainStep(Receive)

SpecDrain ==
    /\ InitDrain /\ [][NextDrain]_vars
    /\ WF_vars(DrainStep(Dispatcher))
    /\ \A s \in DrainSlots : WF_vars(DrainStep(WorkerOf(s, TransportErrs)))
    /\ WF_vars(DrainStep(Receive))

(* One Send() on a prebuilt batch, the caller never receiving: a batch of  *)
(* any size whose snapshots all fit in the channel buffer, or of MaxStall  *)
(* messages.  The scheduler runs every goroutine that can take a step and  *)
(* the transport returns.                                                  *)
StallSlots == 1..MaxStall

StallSizes == (0..(MaxOCIMessages \div 3)) \cup {MaxStall}

InitStall ==
    \E n \in StallSizes :
        Prebuilt([k \in 1..n |-> NewMessage("ok", GoodFrom, <<72, 105>>, <<"to@example.com">>,
                                            <<>>, <<>>, 0)], StallSlots)

NextStall ==
    \/ DrainStep(Send)
    \/ DrainStep(Dispatcher)
    \/ \E s \in StallSlots : DrainStep(WorkerOf(s, {NilErr}))

SpecStall ==
    /\ InitStall /\ [][NextStall]_vars
    /\ WF_vars(DrainStep(Dispatcher))
    /\ \A s \in StallSlots : WF_vars(DrainStep(WorkerOf(s, {NilErr})))

(* The manager with its calls taken one statement at a time: the caller   *)
(* adds messages, calls Send() once, SendStatus() and CancelSend() at any   *)
(* time, and receives.                                                      *)
LockStep(A) == Running /\ A /\ UNCHANGED <<restVars, poolVars>>

CallerLocking(pool) ==
    \/ \E m \in pool : Len(Messages) < MaxMsgs /\ CallAddMessage(m)
    \/ \E ms \in Batches(pool) : Len(Messages) + Len(ms) <= MaxMsgs /\ CallAddMessages(ms)
    \/ AddLock
    \/ AddAppend
    \/ CallSendStatus
    \/ SendStatusSetup
    \/ SendStatusLock
    \/ SendStatusReturn
    \/ CallCancelSend
    \/ CancelSendSetup
    \/ CallSend

DispatcherLocking ==
    \/ DispStartUnlocked
    \/ DispLock
    \/ DispReadUnlock
    \/ DispPublish /\ UNCHANGED lockVars
    \/ DispLaunch /\ UNCHANGED lockVars
    \/ DispWait /\ UNCHANGED lockVars
    \/ DispClose /\ UNCHANGED lockVars

NextLock ==
    \/ LockStep(CallerLocking(OkPool(now)))
    \/ LockStep(Receive /\ UNCHANGED lockVars)
    \/ LockStep(DispatcherLocking)
    \/ LockStep(Worker /\ UNCHANGED lockVars)

SpecLock == Init /\ [][NextLock]_vars

(* The same with a caller that only adds messages and calls Send(). *)
CallerAppending(pool) ==
    \/ \E m \in pool : Len(Messages) < MaxMsgs /\ CallAddMessage(m)
    \/ \E ms \in Batches(pool) : Len(Messages) + Len(ms) <= MaxMsgs /\ CallAddMessages(ms)
    \/ AddLock
    \/ AddAppend
    \/ CallSend

NextAppend ==
    \/ LockStep(CallerAppending(OkPool(now)))
    \/ LockStep(Receive /\ UNCHANGED lockVars)
    \/ LockStep(DispatcherLocking)
    \/ LockStep(Worker /\ UNCHANGED lockVars)

SpecAppend == Init /\ [][NextAppend]_vars

(* One Send() on a prebuilt batch too long for the channel when nobody     *)
(* receives and the transport never returns (two snapshots a message).     *)
(* Once the dispatch is stalled, the dispatcher and every worker waiting   *)
(* on a send or inside the transport, the caller adds up to MaxAdds        *)
(* messages and calls SendStatus().  The scheduler runs the caller's       *)
(* goroutine whenever it can take a step inside a call.                    *)
HangBatch == (MaxOCIMessages \div 2) + 1

HangSlots == 1..HangBatch

InitHang ==
    Prebuilt([k \in 1..HangBatch |-> NewMessage("ok", GoodFrom, <<72, 105>>, <<"to@example.com">>,
                                                <<>>, <<>>, 0)], HangSlots)

(* The dispatcher and the workers are all waiting: on a send to the full   *)
(* channel, in wg.Wait(), or in smtp.SendMail.                             *)
Stalled ==
    /\ Len(ch) = MaxOCIMessages /\ closed = 0
    /\ dpc = "publish" \/ (dpc = "loop" /\ di >= tm /\ wg > 0)
    /\ \A s \in DOMAIN wpc : wpc[s] \in {"none", "start", "term", "submit"}

CallsWhileStalled ==
    \/ \E m \in OkPool(0) : Len(Messages) < HangBatch + MaxAdds /\ Stalled /\ CallAddMessage(m)
    \/ \E ms \in Batches(OkPool(0)) :
           Len(Messages) + Len(ms) <= HangBatch + MaxAdds /\ Stalled /\ CallAddMessages(ms)
    \/ Stalled /\ CallSendStatus

CallsInProgress == AddLock \/ AddAppend \/ SendStatusSetup \/ SendStatusLock \/ SendStatusReturn

HangingWorker(s) == (WorkerSending(s) \/ WorkerBuild(s)) /\ UNCHANGED lockVars

NextHang ==
    \/ LockStep(CallSend)
    \/ LockStep(CallsWhileStalled)
    \/ LockStep(CallsInProgress)
    \/ LockStep(DispatcherLocking)
    \/ \E s \in HangSlots : LockStep(HangingWorker(s))

SpecHang ==
    /\ InitHang /\ [][NextHang]_vars
    /\ WF_vars(LockStep(CallsInProgress))

(* Tolist() applied to messages with every choice of MailTo, CC and BCC    *)
(* of up to MaxRcpt entries each.                                          *)
Recipients == { "to@example.com", "Bob <bob@example.com>", "not-an-email" }

InitTolist ==
    /\ SendIdle /\ AuthIdle /\ LockIdle /\ PoolIdle
    /\ ret = NoCall
    /\ calls = <<>>
    /\ \E to \in SeqsUpTo(Recipients, MaxRcpt), cc \in SeqsUpTo(Recipients, MaxRcpt),
          bcc \in SeqsUpTo(Recipients, MaxRcpt) :
          msg = NewMessageFull(GoodFrom, <<72, 105>>, <<>>, "", to, cc, bcc, <<>>, 0)

NextTolist == CallTolist

SpecTolist == InitTolist /\ [][NextTolist]_vars

(* Up to MaxCalls attach calls on a message created by NewMessage, with    *)
(* every filename of up to MaxNameLen characters.                          *)
FilenameChars == { "a", "/" }

Filenames == SeqsUpTo(FilenameChars, MaxNameLen)

Buffers == { <<>>, <<1>>, <<2>> }

NextAttach ==
    /\ Len(calls) < MaxCalls
    /\ \/ \E filename \in Filenames, buf \in Buffers, inline \in BOOLEAN :
              AttachBuffer(filename, buf, inline)
       \/ \E file \in Filenames : Attach(file)
       \/ \E file \in Filenames : Inline(file)

SpecAttach == Init /\ [][NextAttach]_vars

(* Bytes() on messages with every choice of sender, subject, body, body    *)
(* content type, CC, Reply-To and of up to MaxAtt attachments, after up to *)
(* MaxHeaders AddHeader calls.                                             *)
Subjects == { <<>>, <<72, 105>>, <<233, 8364>>, <<72, 65533>> }

Bodies == { <<>>, << <<"hello">> >>, << <<"hello">>, BoundaryLine, <<"world">> >> }

AttachmentPool ==
    { [Filename |-> <<"a">>, Data |-> <<1>>, Inline |-> FALSE],
      [Filename |-> <<"b", ".", "t", "x", "t">>, Data |-> <<104, 105>>, Inline |-> TRUE],
      [Filename |-> <<"c">>, Data |-> <<0, 255, 16>>, Inline |-> FALSE] }

RECURSIVE WithAttachments(_, _)
WithAttachments(m, atts) ==
    IF atts = {} THEN m
    ELSE LET att == CHOOSE a \in atts : TRUE
         IN  Store(WithAttachments(m, atts \ {att}), att.Filename, att.Data, att.Inline)

HeaderPool == { [Key |-> "X-Tag", Value |-> "1"], [Key |-> "Subject", Value |-> "again"] }

InitBytes ==
    /\ SendIdle /\ AuthIdle /\ LockIdle /\ PoolIdle
    /\ ret = NoCall
    /\ calls = <<>>
    /\ \E from \in {GoodFrom, BadFrom}, subject \in Subjects, body \in Bodies,
          bodyContentType \in {"", "text/plain"},
          cc \in {<<>>, <<"cc@example.com">>, <<"cc@example.com", "Bob <bob@example.com>">>},
          reply \in {<<>>, <<"reply@example.com">>} :
          \E atts \in {S \in SUBSET AttachmentPool : Cardinality(S) <= MaxAtt} :
              msg = WithAttachments(
                        NewMessageFull(from, subject, body, bodyContentType,
                                       <<"to@example.com">>, cc, <<"bcc@example.com">>, reply, 0),
                        atts)

NextBytes ==
    \/ /\ Len(calls) < MaxHeaders
       /\ \E h \in HeaderPool : AddHeader(h.Key, h.Value)
    \/ CallBytes

SpecBytes == InitBytes /\ [][NextBytes]_vars

(* Tolist() and Bytes() called any number of times on a message with      *)
(* every choice of sender, subject, MailTo and BCC of up to MaxRcpt        *)
(* entries, with or without CC and custom header, and up to MaxAtt         *)
(* attachments.                                                            *)
ToPool == { "to@example.com", "not-an-email" }

BccPool == { "bcc@example.com", "Bob <bob@example.com>" }

WithHeaders(m, headers) == [m EXCEPT !.Headers = headers]

InitEnvelope ==
    /\ SendIdle /\ AuthIdle /\ LockIdle /\ PoolIdle
    /\ ret = NoCall
    /\ calls = <<>>
    /\ \E from \in {GoodFrom, BadFrom}, subject \in {<<72, 105>>, <<72, 65533>>},
          to \in SeqsUpTo(ToPool, MaxRcpt), cc \in {<<>>, <<"cc@example.com">>},
          bcc \in SeqsUpTo(BccPool, MaxRcpt),
          headers \in {<<>>, <<[Key |-> "X-Tag", Value |-> "1"]>>} :
          \E atts \in {S \in SUBSET AttachmentPool : Cardinality(S) <= MaxAtt} :
              msg = WithHeaders(
                        WithAttachments(
                            NewMessageFull(from, subject, << <<"hello">> >>, "", to, cc, bcc, <<>>, 0),
                            atts),
                        headers)

NextEnvelope ==
    \/ CallTolist
    \/ CallBytes

SpecEnvelope == InitEnvelope /\ [][NextEnvelope]_vars

(* One Send() on a prebuilt batch of messages with bodies and attachments, *)
(* the workers serializing through bufferPool and handing the bytes to the *)
(* transport.                                                              *)
Composed(id, subject, body, mailTo, atts) ==
    [WithAttachments(NewMessageFull(GoodFrom, subject, body, "", mailTo, <<>>, <<>>, <<>>, 0), atts)
        EXCEPT !.ID = id]

ComposedPool ==
    { Composed("first", <<72, 105>>, << <<"hello">> >>, <<"to@example.com">>,
               {[Filename |-> <<"a">>, Data |-> <<1>>, Inline |-> FALSE]}),
      Composed("second", <<72, 105>>, << <<"hello">>, BoundaryLine, <<"world">> >>,
               <<"to@example.com">>,
               {[Filename |-> <<"c">>, Data |-> <<0, 255, 16>>, Inline |-> FALSE]}),
      Composed("plain", <<72, 105>>, << <<"bye">> >>, <<"cc@example.com">>, {}),
      Composed("badsubject", <<72, 65533>>, << <<"hello">> >>, <<"cc@example.com">>, {}),
      Composed("badto", <<72, 105>>, << <<"hello">> >>, <<"not-an-email">>, {}) }

InitPool == \E batch \in SeqsUpTo(ComposedPool, MaxMsgs) : Prebuilt(batch, Slots)

WorkerPooling ==
    \/ \E s \in Slots : WorkerSending(s) /\ UNCHANGED poolVars
    \/ \E s \in Slots : WorkerGetBuffer(s)
    \/ \E s \in Slots : WorkerBytes(s)
    \/ \E s \in Slots, e \in TransportErrs : WorkerSubmitData(s, e)
    \/ \E s \in Slots : WorkerTerminal(s) /\ UNCHANGED poolVars
    \/ \E s \in Slots : WorkerDone(s) /\ UNCHANGED poolVars

PoolStep(A) == Running /\ A /\ UNCHANGED <<restVars, lockVars>>

NextPool ==
    \/ PoolStep(Send /\ UNCHANGED poolVars)
    \/ PoolStep(Receive /\ UNCHANGED poolVars)
    \/ PoolStep(Dispatcher /\ UNCHANGED poolVars)
    \/ PoolStep(WorkerPooling)

SpecPool == InitPool /\ [][NextPool]_vars

(* A caller that builds one message, hands copies of it to AddMessage,     *)
(* calls Send() and goes on calling AttachBuffer, AddHeader and AddTo on   *)
(* its message.  Passing a Message by value copies the struct: the copy    *)
(* has the slice headers of MailTo, CC, BCC, Reply and Headers, whose      *)
(* elements a later append to the original leaves alone, and the pointer   *)
(* to the one Attachments map NewMessage made, named here by its owner.    *)
StructCopy(m) == [m EXCEPT !.Attachments = "msg.Attachments"]

(* What is read through the message value m: its fields, and behind its    *)
(* Attachments pointer the map as the original message original has it.    *)
Content(m, original) ==
    IF "Attachments" \in DOMAIN m /\ m.Attachments = "msg.Attachments"
    THEN [m EXCEPT !.Attachments = original.Attachments]
    ELSE m

InitShare ==
    /\ SendIdle /\ AuthIdle /\ LockIdle /\ PoolIdle
    /\ ret = NoCall
    /\ calls = <<>>
    /\ msg = NewMessageFull(GoodFrom, <<72, 105>>, << <<"hello">> >>, "",
                            <<"to@example.com">>, <<>>, <<>>, <<>>, 0)

CallerBuilding ==
    /\ Len(calls) < MaxCalls
    /\ \/ \E filename \in {<<"a">>, <<"c">>} : AttachBuffer(filename, <<1>>, FALSE)
       \/ AddHeader("X-Tag", "1")
       \/ AddTo([Name |-> "Bob", Address |-> "bob@example.com"])

NextShare ==
    \/ CallerBuilding
    \/ Running /\ AddMessage(StructCopy(msg)) /\ UNCHANGED otherVars
    \/ Running /\ Send /\ UNCHANGED otherVars
    \/ Running /\ Receive /\ UNCHANGED otherVars
    \/ Running /\ Dispatcher /\ UNCHANGED otherVars
    \/ Running /\ Worker /\ UNCHANGED otherVars

SpecShare == InitShare /\ [][NextShare]_vars

(* MaxCallers goroutines calling Validate() and Authenticate() on one      *)
(* object, built by the constructor or as a literal with Authenticated     *)
(* already set.                                                            *)
InitAuth ==
    /\ SendIdle /\ BuilderIdle /\ LockIdle /\ PoolIdle
    /\ mu = 0
    /\ Authenticated \in BOOLEAN
    /\ apc = [c \in Callers |-> "idle"]

NextAuth ==
    \E c \in Callers :
        \/ CallValidate(c)
        \/ ValidateLock(c)
        \/ ValidateReturn(c)
        \/ CallAuthenticate(c)
        \/ AuthenticateLock(c)
        \/ AuthenticateCheck(c)
        \/ AuthenticateValidateLock(c)
        \/ AuthenticateValidateReturn(c)
        \/ AuthenticateRelock(c)
        \/ AuthenticateReturn(c)

SpecAuth == InitAuth /\ [][NextAuth]_vars

(* ------------------------------ helpers -------------------------------- *)
(* Every snapshot of slot s accepted by the channel so far, in order:      *)
(* those the caller has received, then those still buffered.               *)
Published(s) == received[s] \o SelectSeq(ch, LAMBDA x : x.slot = s)

StatusesOf(snaps) == [k \in 1..Len(snaps) |-> snaps[k].msg.Status]

IsPrefix(a, b) == Len(a) <= Len(b) /\ \A k \in 1..Len(a) : a[k] = b[k]

Terminal(st) == st \in {Sent, SendError}

TerminalsOf(s) == SelectSeq(Published(s), LAMBDA x : Terminal(x.msg.Status))

Drained == closed > 0 /\ ch = <<>>

Lifecycles == { <<Queued, Sending, Sent>>, <<Queued, Sending, SendError>> }

(* ------------------------------- claims -------------------------------- *)
(* C1: the statuses of the snapshots of one message, as published on and   *)
(* received from the channel, always form a prefix of Queued, Sending,     *)
(* Sent or of Queued, Sending, SendError, and once the channel is closed   *)
(* and drained the caller has received exactly one of these two sequences  *)
(* for every dispatched message (and nothing for any other slot).          *)
C1_Lifecycle ==
    \A s \in Slots :
        /\ \E l \in Lifecycles : IsPrefix(StatusesOf(Published(s)), l)
        /\ \A k \in 1..Len(received[s]) : received[s][k].slot = s
        /\ Drained => IF s <= tm THEN StatusesOf(received[s]) \in Lifecycles
                                 ELSE received[s] = <<>>

C1_Witness ==
    /\ Drained
    /\ tm >= 2
    /\ StatusesOf(received[1]) = <<Queued, Sending, SendError>>
    /\ StatusesOf(received[2]) = <<Queued, Sending, Sent>>

(* C2: once the channel is closed, every dispatched message has exactly   *)
(* one terminal snapshot (Sent or SendError) published on it and no other  *)
(* slot has any: N terminal snapshots for a batch of N, N = 0 included.    *)
TerminalCount == Cardinality({p \in Slots \X (1..3) :
                     /\ p[2] <= Len(Published(p[1]))
                     /\ Terminal(Published(p[1])[p[2]].msg.Status)})

C2_TerminalCount ==
    closed > 0 =>
        /\ \A s \in Slots : Len(TerminalsOf(s)) = IF s <= tm THEN 1 ELSE 0
        /\ TerminalCount = tm

C2_Witness ==
    /\ closed > 0
    /\ tm >= 2
    /\ \A s \in Slots : received[s] = <<>>
    /\ TerminalCount = tm

(* C3: the channel is closed at most once, by the dispatcher after Wait,   *)
(* when every launched worker has finished; the WaitGroup counter always   *)
(* equals the number of launched, unfinished workers (so it is already     *)
(* incremented for worker i when the dispatcher reaches Wait); and nobody  *)
(* sends on the closed channel.                                            *)
ActiveWorkers == {s \in Slots : wpc[s] \notin {"none", "done"}}

C3_CloseAfterWorkers ==
    /\ closed <= 1
    /\ closed > 0 <=> dpc = "done"
    /\ panicMsg # "send on closed channel"
    /\ wg = Cardinality(ActiveWorkers)
    /\ dpc \in {"close", "done"} =>
           /\ wg = 0
           /\ \A s \in Slots : wpc[s] = IF s <= tm THEN "done" ELSE "none"

C3_Witness ==
    /\ closed = 1
    /\ tm >= 2
    /\ \A s \in 1..tm : wpc[s] = "done"
    /\ Len(ch) >= 3

(* C5: no step changes a slot of the batch slice: the slice only grows,    *)
(* and every slot keeps the value it was added with.                       *)
C5_BatchSlotsUntouched ==
    [][/\ Len(Messages') >= Len(Messages)
       /\ \A k \in 1..Len(Messages) : Messages'[k] = Messages[k]]_vars

C5_Witness ==
    /\ Drained
    /\ \E s \in 1..tm :
          /\ received[s][Len(received[s])].msg.Status = Sent
          /\ Messages[s].Status = NotSent
          /\ Messages[s].Error = NilErr

(* C7: the terminal status of a message is SendError exactly when its own  *)
(* Tolist, its own Bytes or its own transport submission failed, whatever  *)
(* happened to the other messages, and once the channel is closed every    *)
(* dispatched message has its terminal snapshot.                           *)
LastCallErr(s) == IF smtpCalls[s] = <<>> THEN NilErr ELSE smtpCalls[s][Len(smtpCalls[s])].err

OwnFailure(s) ==
    IF Tolist(Messages[s]).err # NilErr THEN Tolist(Messages[s]).err
    ELSE IF BytesErr(Messages[s]) # NilErr THEN BytesErr(Messages[s])
    ELSE LastCallErr(s)

C7_FailureIsolation ==
    \A s \in Slots :
        /\ \A k \in 1..Len(TerminalsOf(s)) :
              TerminalsOf(s)[k].msg.Status = IF OwnFailure(s) # NilErr THEN SendError ELSE Sent
        /\ (closed > 0 /\ s <= tm) => Len(TerminalsOf(s)) = 1

C7_Witness ==
    /\ closed > 0
    /\ \E s \in 1..tm, t \in 1..tm :
          /\ Tolist(Messages[s]).err # NilErr
          /\ LastCallErr(t) = NilErr /\ smtpCalls[t] # <<>>
          /\ TerminalsOf(s)[1].msg.Status = SendError
          /\ TerminalsOf(t)[1].msg.Status = Sent

(* C9: for a message that entered the batch with a nil Error, every        *)
(* published snapshot has a non-nil Error exactly when its Status is       *)
(* SendError, and then Error is the error its failing step returned.       *)
C9_ErrorIffSendError ==
    \A s \in Slots : \A k \in 1..Len(Published(s)) :
        LET x == Published(s)[k].msg
        IN  Messages[s].Error = NilErr =>
              /\ x.Error # NilErr <=> x.Status = SendError
              /\ x.Status = SendError => x.Error = OwnFailure(s)

C9_Witness ==
    /\ Drained
    /\ \E s \in 1..tm, t \in 1..tm :
          /\ received[s][3].msg.Error = Tolist(Messages[s]).err
          /\ Tolist(Messages[s]).err # NilErr
          /\ received[t][3].msg.Error = <<"smtp: 550 rejected">>
          /\ received[t][2].msg.Error = NilErr

(* C4: a SendStatus() that runs after the dispatch of tm > 0 messages has  *)
(* completed returns k / tm, k the number of messages whose terminal       *)
(* snapshot is Sent (the quotients are compared by cross-multiplication).  *)
SentTerminals == Cardinality({s \in Slots : \E k \in 1..Len(Published(s)) :
                                 Published(s)[k].msg.Status = Sent})

C4_StatusRatio ==
    (statusRet.returned /\ statusRet.afterClose /\ tm > 0) =>
        statusRet.sent * tm = SentTerminals * statusRet.total

(* C6: CancelSend() never panics and returns an Unsupported error. *)
C6_CancelUnsupported ==
    /\ panicMsg # "implement me"
    /\ cancelRet.returned => cancelRet.err = <<"Unsupported">>

C10_DateStatusTracksTransitions ==
    \A s \in Slots : \A k \in 1..Len(Published(s)) :
        LET x == Published(s)[k]
        IN  /\ x.msg.DateStatus = x.at
            /\ x.msg.DateReceived = Messages[s].DateReceived

(* C11: when every entry of MailTo, CC and BCC parses, Tolist() returns    *)
(* one bare address per entry, in the order MailTo, CC, BCC, duplicates    *)
(* kept; otherwise it returns no list and an error naming the first entry  *)
(* of that concatenation that does not parse.                              *)
EntryAt(m, k) ==
    IF k <= Len(m.MailTo) THEN m.MailTo[k]
    ELSE IF k <= Len(m.MailTo) + Len(m.CC) THEN m.CC[k - Len(m.MailTo)]
    ELSE m.BCC[k - Len(m.MailTo) - Len(m.CC)]

C11_Tolist ==
    ret.op = "Tolist" =>
        LET n == Len(msg.MailTo) + Len(msg.CC) + Len(msg.BCC)
            invalid == {k \in 1..n : ParseAddress(EntryAt(msg, k)).err # NilErr}
        IN  IF invalid = {}
            THEN /\ ret.err = NilErr
                 /\ Len(ret.list) = n
                 /\ \A k \in 1..n : ret.list[k] = ParseAddress(EntryAt(msg, k)).addr
            ELSE /\ ret.list = <<>>
                 /\ ret.err # NilErr
                 /\ \E k \in invalid :
                       /\ \A j \in invalid : k <= j
                       /\ ret.err[2] = EntryAt(msg, k)

C11_Witness ==
    /\ ret.op = "Tolist"
    /\ msg.MailTo = <<"to@example.com">>
    /\ msg.CC = <<"Bob <bob@example.com>", "to@example.com">>
    /\ msg.BCC = <<"Bob <bob@example.com>">>
    /\ ret.list = <<"to@example.com", "bob@example.com", "to@example.com", "bob@example.com">>

(* The key an attach call stores under: the sanitized filename, of the     *)
(* path's last element for Attach and Inline.                              *)
Attached(call) == IF call.op = "attach" THEN Base(call.name) ELSE call.name

(* Each maximal run of invalid characters of name gives one "_": the       *)
(* characters kept are the valid ones and the first of every run.          *)
RunsCollapsed(name, k) ==
    LET kept == {i \in 1..Len(name) :
                    \/ name[i] \in ValidFilenameChars
                    \/ i = 1
                    \/ name[i - 1] \in ValidFilenameChars}
        nth(j) == CHOOSE i \in kept : Cardinality({h \in kept : h <= i}) = j
    IN  /\ Len(k) = Cardinality(kept)
        /\ \A j \in 1..Len(k) :
              k[j] = IF name[nth(j)] \in ValidFilenameChars THEN name[nth(j)] ELSE "_"

EachCharReplaced(name, k) ==
    /\ Len(k) = Len(name)
    /\ \A i \in 1..Len(k) :
          k[i] = IF name[i] \in ValidFilenameChars THEN name[i] ELSE "_"

Stored(i) == calls[i].err = NilErr

(* C12, as stated: every key of Attachments has only characters of         *)
(* [A-Za-z0-9._-], maps to an Attachment whose Filename is the key, and is *)
(* the filename of a successful attach call with every invalid character   *)
(* replaced by "_".                                                        *)
C12_KeysEachCharReplaced ==
    \A k \in DOMAIN msg.Attachments :
        /\ \A i \in 1..Len(k) : k[i] \in ValidFilenameChars
        /\ msg.Attachments[k].Filename = k
        /\ \E i \in 1..Len(calls) : Stored(i) /\ EachCharReplaced(Attached(calls[i]), k)

(* C12, amended: every key of Attachments has only characters of           *)
(* [A-Za-z0-9._-], maps to an Attachment whose Filename is the key, and is *)
(* the filename of a successful attach call with every maximal run of      *)
(* invalid characters replaced by one "_"; every successful call has its   *)
(* key in Attachments.                                                     *)
C12_KeysSanitized ==
    /\ \A k \in DOMAIN msg.Attachments :
          /\ \A i \in 1..Len(k) : k[i] \in ValidFilenameChars
          /\ msg.Attachments[k].Filename = k
          /\ \E i \in 1..Len(calls) : Stored(i) /\ RunsCollapsed(Attached(calls[i]), k)
    /\ \A i \in 1..Len(calls) :
          Stored(i) => \E k \in DOMAIN msg.Attachments : RunsCollapsed(Attached(calls[i]), k)

C12_Witness ==
    /\ Len(calls) = 2
    /\ calls[1].op = "AttachBuffer" /\ calls[1].name = <<"/", "/">> /\ Stored(1)
    /\ calls[2].op = "attach" /\ calls[2].name = <<"/", "a">> /\ Stored(2)
    /\ DOMAIN msg.Attachments = {<<"_">>, <<"a">>}

(* C13: an entry of Attachments holds the data and the inline flag of the  *)
(* last successful call whose filename sanitizes to its key, whatever was  *)
(* stored under that key before, and AttachBuffer with a non-empty buffer  *)
(* returns no error.                                                       *)
C13_LastWriteWins ==
    /\ \A i \in 1..Len(calls) :
          (calls[i].op = "AttachBuffer" /\ calls[i].data # <<>>) => Stored(i)
    /\ \A k \in DOMAIN msg.Attachments :
          LET writers == {i \in 1..Len(calls) :
                             Stored(i) /\ RunsCollapsed(Attached(calls[i]), k)}
              last == CHOOSE i \in writers : \A j \in writers : j <= i
          IN  /\ writers # {}
              /\ msg.Attachments[k].Data = calls[last].data
              /\ msg.Attachments[k].Inline = calls[last].inline

C13_Witness ==
    /\ Len(calls) = 2
    /\ calls[1] = [NoCall EXCEPT !.op = "AttachBuffer", !.name = <<"/">>, !.data = <<1>>,
                                 !.inline = FALSE]
    /\ calls[2] = [NoCall EXCEPT !.op = "AttachBuffer", !.name = <<"/", "/">>, !.data = <<2>>,
                                 !.inline = TRUE]
    /\ DOMAIN msg.Attachments = {<<"_">>}
    /\ msg.Attachments[<<"_">>] = [Filename |-> <<"_">>, Data |-> <<2>>, Inline |-> TRUE]

(* C14: AttachBuffer with an empty buffer and Attach or Inline with an     *)
(* unreadable file return an error, and a call that returns an error       *)
(* leaves Attachments as it was.                                           *)
C14_FailedAttachUnchanged ==
    [][Len(calls') > Len(calls) =>
          LET call == calls'[Len(calls')]
          IN  /\ (call.op = "AttachBuffer" /\ call.data = <<>>) => call.err # NilErr
              /\ (call.op = "attach" /\ ReadFile(call.name).err # NilErr) => call.err # NilErr
              /\ call.err # NilErr => msg'.Attachments = msg.Attachments]_vars

C14_Witness ==
    /\ Len(calls) = 2
    /\ calls[1].op = "AttachBuffer" /\ calls[1].name = <<"/", "/">> /\ Stored(1)
    /\ calls[2].op = "attach" /\ calls[2].name = <<"/">> /\ ~Stored(2)
    /\ DOMAIN msg.Attachments = {<<"_">>}
    /\ msg.Attachments[<<"_">>].Data = calls[1].data

(* base64 decoding: four characters give three bytes, fewer for a padded  *)
(* last group.                                                             *)
RECURSIVE DecodeString(_)
DecodeString(c) ==
    IF Len(c) < 4 THEN <<>>
    ELSE LET v(i) == (CHOOSE n \in 1..64 : StdEncoding[n] = c[i]) - 1
         IN  (IF c[3] = "=" THEN <<(v(1) * 4) + (v(2) \div 16)>>
              ELSE IF c[4] = "="
                   THEN <<(v(1) * 4) + (v(2) \div 16), ((v(2) % 16) * 16) + (v(3) \div 4)>>
                   ELSE <<(v(1) * 4) + (v(2) \div 16), ((v(2) % 16) * 16) + (v(3) \div 4),
                          ((v(3) % 4) * 64) + v(4)>>)
             \o DecodeString(SubSeq(c, 5, Len(c)))

Named(line, name) == Len(line) >= 2 /\ line[1] = name /\ line[2] = ": "

(* C15: for k >= 1 attachments a successful Bytes() output has exactly     *)
(* k + 1 opening boundary lines, exactly one terminating boundary line,    *)
(* which is the last line, and each attachment's payload decodes to its    *)
(* Data; for k = 0 it has no boundary line and one body part.              *)
C15_MultipartStructure ==
    (ret.op = "Bytes" /\ ret.err = NilErr) =>
        LET k == Cardinality(DOMAIN msg.Attachments)
            out == ret.out
            opening == {i \in 1..Len(out) : out[i] = BoundaryLine}
            closing == {i \in 1..Len(out) : out[i] = ClosingLine}
        IN  IF k >= 1
            THEN /\ Cardinality(opening) = k + 1
                 /\ closing = {Len(out)}
                 /\ \A f \in DOMAIN msg.Attachments :
                       \E i \in 1..(Len(out) - 3) :
                           /\ out[i] = <<"Content-Disposition", ": ", "attachment", "; filename=\"">>
                                       \o f \o <<"\"">>
                           /\ out[i + 2] = <<>>
                           /\ DecodeString(out[i + 3]) = msg.Attachments[f].Data
            ELSE /\ opening = {}
                 /\ closing = {}
                 /\ Cardinality({i \in 1..Len(out) : Named(out[i], "Content-Type")}) = 1

(* C16: a successful Bytes() output has the header lines From, Date, To,   *)
(* Cc, Subject, Reply-To, MIME-Version, the custom headers in the order of *)
(* the AddHeader calls, then Content-Type; Cc is there exactly when CC is  *)
(* non-empty and Reply-To exactly when Reply is non-empty; the Subject     *)
(* line is "Subject: =?UTF-8?B?" followed by the base64 of Subject and     *)
(* "?=".                                                                   *)
C16_HeaderOrder ==
    (ret.op = "Bytes" /\ ret.err = NilErr) =>
        LET out == ret.out
            end == CHOOSE i \in 1..Len(out) : out[i] = <<>> /\ \A j \in 1..(i - 1) : out[j] # <<>>
            names == [i \in 1..(end - 1) |-> out[i][1]]
            custom == [i \in 1..Len(calls) |-> calls[i].name[1]]
            at == IF msg.CC # <<>> THEN 5 ELSE 4
            encoded == SubSeq(out[at], 4, Len(out[at]) - 1)
        IN  /\ names = <<"From", "Date", "To">>
                       \o (IF msg.CC # <<>> THEN <<"Cc">> ELSE <<>>)
                       \o <<"Subject">>
                       \o (IF msg.Reply # <<>> THEN <<"Reply-To">> ELSE <<>>)
                       \o <<"MIME-Version">> \o custom \o <<"Content-Type">>
            /\ \A i \in 1..(end - 1) : out[i][2] = ": "
            /\ \A i \in 1..Len(calls) :
                  out[end - 1 - Len(calls) + i - 1] = <<calls[i].name[1], ": ", calls[i].data[1]>>
            /\ out[at] = <<"Subject", ": ", "=?UTF-8?B?">> \o encoded \o <<"?=">>
            /\ Len(encoded) = 4 * ((Len(UTF8(msg.Subject)) + 2) \div 3)
            /\ DecodeString(encoded) = UTF8(msg.Subject)

C16_Witness ==
    /\ ret.op = "Bytes" /\ ret.err = NilErr
    /\ msg.CC # <<>> /\ msg.Reply # <<>>
    /\ Len(calls) = 2 /\ calls[1].name = <<"Subject">> /\ calls[2].name = <<"X-Tag">>
    /\ msg.Subject = <<233, 8364>>
    /\ ret.out[5] = <<"Subject", ": ", "=?UTF-8?B?", "w", "6", "n", "i", "g", "q", "w", "=", "?=">>
    /\ ret.out[8] = <<"Subject", ": ", "again">>
    /\ ret.out[9] = <<"X-Tag", ": ", "1">>

(* C17: every call of Validate() or Authenticate() returns with the        *)
(* mutex released: no goroutine that is outside a call holds mu.           *)
C17_MutexReleasedOnReturn ==
    \A c \in Callers : apc[c] = "idle" => mu # c

(* C18: with a caller that keeps receiving and a transport that returns,   *)
(* a message is published as Queued only by a started dispatch, and once   *)
(* Send() has started the dispatch every message of the batch is published *)
(* as Queued, then Sending, then Sent or SendError, all workers finish and *)
(* the channel is closed.                                                  *)
QueuedPublished(s) == \E k \in 1..Len(Published(s)) : Published(s)[k].msg.Status = Queued

LifecyclePublished(s) ==
    /\ Len(Published(s)) = 3
    /\ Published(s)[1].msg.Status = Queued
    /\ Published(s)[2].msg.Status = Sending
    /\ Published(s)[3].msg.Status \in {Sent, SendError}

DispatchComplete ==
    /\ closed > 0
    /\ wg = 0
    /\ \A s \in DOMAIN wpc : wpc[s] = IF s <= Len(Messages) THEN "done" ELSE "none"

Fits == 3 * Len(Messages) <= MaxOCIMessages

SendPending == dpc = "publish" \/ \E s \in DOMAIN wpc : wpc[s] \in {"start", "term"}

BlockedOnSend == Len(ch) = MaxOCIMessages /\ closed = 0 /\ SendPending

Ended == made /\ ~ENABLED NextStall

DispatcherPosition ==
    [none |-> 0, start |-> 1, loop |-> 2, publish |-> 3, launch |-> 4, close |-> 5, done |-> 6][dpc]
    + (3 * di)

WorkerPosition ==
    [none |-> 0, start |-> 1, build |-> 2, submit |-> 3, term |-> 4, exit |-> 5, done |-> 6]

Advanced(s) == WorkerPosition[wpc'[s]] > WorkerPosition[wpc[s]]

Progress ==
    \/ /\ DispatcherPosition' > DispatcherPosition
       /\ \A s \in DOMAIN wpc : wpc'[s] = wpc[s] \/ Advanced(s)
    \/ /\ DispatcherPosition' = DispatcherPosition
       /\ \E s \in DOMAIN wpc : Advanced(s) /\ \A r \in DOMAIN wpc \ {s} : wpc'[r] = wpc[r]

C19_Backpressure ==
    /\ [](Len(ch) <= MaxOCIMessages)
    /\ [](Fits => ~(SendPending /\ Len(ch) = MaxOCIMessages))
    /\ [](~Fits => (closed = 0 /\ ~DispatchComplete))
    /\ [](Ended => IF Fits THEN DispatchComplete ELSE BlockedOnSend)
    /\ [][Progress]_vars

C19_Witness ==
    /\ Len(Messages) = 4
    /\ BlockedOnSend
    /\ dpc = "loop" /\ di = tm
    /\ wpc[3] = "term" /\ wpc[4] = "term"

(* C20: within one Send() the transport is called at most once for a      *)
(* batch message and not at all for a message whose Tolist() or Bytes()    *)
(* fails: that message is published as Queued, Sending and then SendError. *)
FailsValidation(m) == Tolist(m).err # NilErr \/ BytesErr(m) # NilErr

C20_SubmitAtMostOnce ==
    \A s \in Slots :
        /\ Len(smtpCalls[s]) <= 1
        /\ (wpc[s] # "none" /\ FailsValidation(wm[s])) =>
              /\ smtpCalls[s] = <<>>
              /\ IsPrefix(StatusesOf(Published(s)), <<Queued, Sending, SendError>>)
        /\ (wpc[s] \in {"term", "exit", "done"} /\ ~FailsValidation(wm[s])) =>
              Len(smtpCalls[s]) = 1

C20_Witness ==
    /\ wpc[1] = "done" /\ FailsValidation(wm[1])
    /\ smtpCalls[1] = <<>>
    /\ StatusesOf(Published(1)) = <<Queued, Sending, SendError>>
    /\ wpc[2] = "done" /\ Len(smtpCalls[2]) = 1
    /\ smtpCalls[2][1].err # NilErr
    /\ StatusesOf(Published(2)) = <<Queued, Sending, SendError>>

(* The goroutines whose next statement reads o.Messages, and those whose   *)
(* next statement appends to it.                                           *)
BatchReaders ==
    (IF dpc \in {"start", "locked"} THEN {"dispatcher"} ELSE {})
    \cup (IF cpc = "SendStatus.locked" THEN {"caller"} ELSE {})

BatchWriters == IF cpc \in {"AddMessage.locked", "AddMessages.locked"} THEN {"caller"} ELSE {}

(* C21: every goroutine about to read or append to the batch slice holds   *)
(* MessagesMT, the dispatcher reading the length of the slice included, so *)
(* no read of the slice is concurrent with an append.                      *)
C21_BatchAccessUnderLock ==
    /\ \A g \in BatchReaders \cup BatchWriters : mt = g
    /\ ~(BatchWriters # {} /\ BatchReaders \ BatchWriters # {})

InCall == cpc # "idle"

CallReturned == cpc = "idle"

(* C22: the dispatcher holds MessagesMT only between its Lock() and its    *)
(* read of the slot, never while it sends, waits or closes; the caller     *)
(* holds it only inside the locked part of a call and no worker ever       *)
(* holds it; so with the dispatch stalled for ever on the full channel and *)
(* in the transport, every AddMessage, AddMessages and SendStatus call     *)
(* returns.                                                                *)
C22_LockFreeWhileStalled ==
    /\ [](mt \in {"", "caller", "dispatcher"})
    /\ [](mt = "dispatcher" <=> dpc = "locked")
    /\ [](mt = "caller" <=>
             cpc \in {"AddMessage.locked", "AddMessages.locked", "SendStatus.locked"})
    /\ InCall ~> CallReturned

C22_Witness ==
    /\ Stalled
    /\ dpc = "publish"
    /\ \A s \in 1..(HangBatch - 1) : wpc[s] = "submit"
    /\ Len(Messages) = HangBatch + 1
    /\ statusRet.returned /\ statusRet.total = HangBatch + 1
    /\ cpc = "idle"

(* The dispatcher has read batch slot s: m := o.Messages[s - 1] has run. *)
SlotRead(s) == s <= di \/ (s = di + 1 /\ dpc \in {"publish", "launch"})

Launched(s) == wpc[s] # "none"

(* The step puts a snapshot on the channel. *)
Accepted == Len(ch') = Len(ch) + 1 /\ SubSeq(ch', 1, Len(ch)) = ch

(* C23: the dispatcher reads slot i + 1 only when the Queued snapshot of   *)
(* every slot up to i is on the channel and its worker launched; a worker  *)
(* is launched only after the Queued snapshot of its slot; the Queued      *)
(* snapshot of a slot is accepted when those of all lower slots have been  *)
(* and none of a higher slot has, and it is the first snapshot of its      *)
(* slot; Sending and terminal snapshots come from the slot's own worker,   *)
(* whatever the other workers have published.                              *)
C23_DispatchInIndexOrder ==
    /\ [](\A s \in DrainSlots : SlotRead(s) =>
              \A r \in 1..(s - 1) : QueuedPublished(r) /\ Launched(r))
    /\ [](\A s \in DrainSlots : Launched(s) => (SlotRead(s) /\ QueuedPublished(s)))
    /\ [](\A s \in DrainSlots : Published(s) # <<>> => Published(s)[1].msg.Status = Queued)
    /\ [][Accepted =>
            LET x == ch'[Len(ch')]
            IN  IF x.msg.Status = Queued
                THEN /\ x.slot = di + 1 /\ dpc = "publish"
                     /\ \A r \in 1..(x.slot - 1) : QueuedPublished(r) /\ Launched(r)
                     /\ \A r \in DrainSlots : r >= x.slot => (Published(r) = <<>> /\ ~Launched(r))
                ELSE Launched(x.slot) /\ QueuedPublished(x.slot)]_vars

C23_Witness ==
    /\ Len(Messages) = 2
    /\ received[1] = <<>> /\ received[2] = <<>>
    /\ StatusesOf(ch) = <<Queued, Queued, Sending, Sent, Sending>>
    /\ [k \in 1..Len(ch) |-> ch[k].slot] = <<1, 2, 2, 2, 1>>

BoundaryOf(out) ==
    LET at == {i \in 1..Len(out) : /\ Named(out[i], "Content-Type")
                                   /\ Len(out[i]) = 4
                                   /\ out[i][3] = "multipart/mixed; boundary="}
    IN  IF at = {} THEN "" ELSE out[CHOOSE i \in at : \A j \in at : i <= j][4]

(* C25: two messages of a batch that both serialize as multipart get       *)
(* different boundary tokens, so neither body contains a boundary line of  *)
(* the other message.                                                      *)
C25_BoundaryUnique ==
    \A s \in Slots : \A r \in Slots \ {s} :
        (BoundaryOf(wdata[s].out) # "" /\ BoundaryOf(wdata[r].out) # "") =>
            /\ BoundaryOf(wdata[s].out) # BoundaryOf(wdata[r].out)
            /\ \A i \in 1..Len(wm[r].Body) :
                  wm[r].Body[i] # <<"--" \o BoundaryOf(wdata[s].out)>>

(* C27: the bytes every smtp.SendMail call of a worker was handed are the  *)
(* serialization its own Bytes() call returned.                            *)
C27_SubmittedOwnBytes ==
    \A s \in Slots : \A k \in 1..Len(smtpCalls[s]) :
        smtpCalls[s][k].data = wdata[s].out

(* C26: once a snapshot is published, no step changes what is read        *)
(* through it, the contents of its Attachments map included.               *)
C26_SnapshotImmutable ==
    [][\A s \in Slots : \A k \in 1..Len(Published(s)) :
          Content(Published(s)'[k].msg, msg') = Content(Published(s)[k].msg, msg)]_vars

(* The goroutines about to write o.Client in setup(), and the workers      *)
(* about to read it in their smtp.SendMail call.                           *)
ClientWriters == IF cpc \in {"SendStatus", "CancelSend"} THEN {"caller"} ELSE {}

ClientReaders == {s \in DOMAIN wpc : wpc[s] = "submit"}

(* C28: while a worker of a running dispatch is about to read o.Client,    *)
(* no call of the caller is about to write it.                             *)
C28_NoClientRace == ~(ClientWriters # {} /\ ClientReaders # {})

(* The step appends to the batch. *)
Appended == Len(Messages') > Len(Messages)

(* C29: an append during a dispatch changes nothing of the dispatch and    *)
(* keeps the slots already in the batch; the dispatcher's index is inside  *)
(* the slice whenever it reads a slot; only the first tm slots are ever    *)
(* launched or get a snapshot, and when the dispatcher has finished all    *)
(* of them have been launched.                                             *)
C29_AppendDuringDispatch ==
    /\ [][Appended => /\ SubSeq(Messages', 1, Len(Messages)) = Messages
                      /\ UNCHANGED <<chanVars, dispVars, wg, workerVars>>]_vars
    /\ [](dpc = "locked" => di + 1 \in 1..Len(Messages))
    /\ [](panicMsg # "index out of range")
    /\ [](dpc \notin {"none", "start"} =>
            \A s \in Slots : (Launched(s) \/ Published(s) # <<>>) => s <= tm)
    /\ [](dpc = "done" => /\ tm <= Len(Messages)
                          /\ \A s \in 1..tm : Launched(s) /\ Published(s) # <<>>)

C29_Witness ==
    /\ dpc = "done"
    /\ tm = 1
    /\ Len(Messages) = 2
    /\ Published(1) # <<>>
    /\ Published(2) = <<>>

(* The message m with another BCC list. *)
WithBcc(m, bcc) == [m EXCEPT !.BCC = bcc]

(* What Bytes() may return for m at time t, over the orders of its map. *)
Serializations(m, t) == { Bytes(m, order, t) : order \in Orders(DOMAIN m.Attachments) }

(* C30: when Tolist() succeeds, the parsed address of every BCC entry is   *)
(* in the list it returns, after those of MailTo and CC; what Bytes()      *)
(* returns, error included, is the same for every BCC list the message     *)
(* could have instead, and no piece of a line it emits is a BCC entry or   *)
(* its parsed address, nor is any line a Bcc header.                       *)
C30_BccConfidential ==
    /\ ret.op = "Tolist" => (ret.list = Tolist(msg).list /\ ret.err = Tolist(msg).err)
    /\ Tolist(msg).err = NilErr =>
          \A k \in 1..Len(msg.BCC) :
              Tolist(msg).list[Len(msg.MailTo) + Len(msg.CC) + k] = ParseAddress(msg.BCC[k]).addr
    /\ \A bcc \in SeqsUpTo(BccPool, MaxRcpt) :
          Serializations(WithBcc(msg, bcc), now) = Serializations(msg, now)
    /\ ret.op = "Bytes" =>
          /\ [out |-> ret.out, err |-> ret.err] \in Serializations(msg, now)
          /\ \A i \in 1..Len(ret.out) :
                /\ ~Named(ret.out[i], "Bcc")
                /\ \A j \in 1..Len(ret.out[i]) : \A k \in 1..Len(msg.BCC) :
                      ret.out[i][j] \notin {msg.BCC[k], ParseAddress(msg.BCC[k]).addr}

C30_Witness ==
    /\ ret.op = "Bytes" /\ ret.err = NilErr
    /\ msg.BCC = <<"bcc@example.com", "Bob <bob@example.com>">>
    /\ msg.MailTo = <<"to@example.com">> /\ msg.CC = <<"cc@example.com">>
    /\ Tolist(msg).list = <<"to@example.com", "cc@example.com", "bcc@example.com", "bob@example.com">>
    /\ DOMAIN msg.Attachments # {}

====
